---- MODULE Spec2Model ----
(***************************************************************************)
(* Model of the BDD-to-k6 compiler of k6-experimental: the feature parser  *)
(* (bdd/parser.js), the step registry and matcher (bdd/steps/index.js),    *)
(* the script generator (bdd/generator.js) and the runner (bdd/runner.js). *)
(*                                                                         *)
(* A JavaScript string is a sequence of symbols.  A symbol is either one   *)
(* character ("<", "a", "1", ...) or an indivisible run of characters      *)
(* (a word such as "Row", or a literal phrase of a registry pattern).      *)
(***************************************************************************)
EXTENDS Integers, Sequences, FiniteSets, TLC

VARIABLES
    pc,           \* position of the run under the current specification
    ast,          \* parser: the Gherkin AST of the feature file being parsed
    parsed,       \* parser: the value returned by parseFeatureFile
    stepText,     \* matcher: the text handed to matchStep
    registry,     \* matcher: STEP_DEFINITIONS as held by the module
    matchResult,  \* matcher: value returned by the latest call of matchStep
    prevResult,   \* matcher: value returned by the call before that
    genInput,     \* generator: [feature, scenario] handed to generateSingleScript
    script,       \* generator: the generated script
    phase,        \* runner: the phase the run is in
    options,      \* runner: [parseOnly, generateOnly] as read from argv
    target,       \* runner: what the target path names in the file system
    pending,      \* runner: the feature files still to be parsed, in order
    features,     \* runner: the features parsed so far
    outputDir,    \* runner: the output directory in the file system
    allGenerated, \* runner: the generated scripts, in generation order
    inFlight,     \* runner: the engine subprocesses that are running
    engineLog,    \* runner: the engine invocations made so far
    results,      \* runner: the per-scenario results
    allPassed,    \* runner: the flag of the same name
    exitCode,     \* runner: the code given to process.exit, once exited
    trace         \* runner: the phases entered so far, in order

parseVars == <<ast, parsed>>
matchVars == <<stepText, registry, matchResult, prevResult>>
genVars   == <<genInput, script>>
runVars   == <<phase, options, target, pending, features, outputDir, allGenerated,
               inFlight, engineLog, results, allPassed, exitCode, trace>>
vars      == <<pc, ast, parsed, stepText, registry, matchResult, prevResult,
               genInput, script, phase, options, target, pending, features,
               outputDir, allGenerated, inFlight, engineLog, results, allPassed,
               exitCode, trace>>

-----------------------------------------------------------------------------
(* Bounds of the model *)

MaxTables  == 2   \* Examples tables per scenario outline
MaxRows    == 2   \* data rows per Examples table
MaxTextLen == 4   \* symbols in a free step text
MaxSteps   == 2   \* steps of a scenario handed to the generator
MaxDigits  == 2   \* digits of a duration value
MaxFiles   == 2   \* feature files of a target directory
MaxNameLen == 4   \* symbols of a scenario name handed to the slug
MaxSeconds == 60  \* seconds of a duration handed to buildStages

-----------------------------------------------------------------------------
(* Optional values and strings *)

None    == [some |-> FALSE]
Some(v) == [some |-> TRUE, v |-> v]

Max(a, b) == IF a >= b THEN a ELSE b

\* Number::toString for a non-negative integer, as decimal digit symbols.
DigitSym == <<"0", "1", "2", "3", "4", "5", "6", "7", "8", "9">>

RECURSIVE NumberToString(_)
NumberToString(n) ==
    IF n < 10 THEN <<DigitSym[n + 1]>>
    ELSE NumberToString(n \div 10) \o <<DigitSym[(n % 10) + 1]>>

WhiteSpace == {" "}

\* String.prototype.trim
RECURSIVE TrimStart(_)
TrimStart(s) ==
    IF s # <<>> /\ Head(s) \in WhiteSpace THEN TrimStart(Tail(s)) ELSE s

RECURSIVE TrimEnd(_)
TrimEnd(s) ==
    IF s # <<>> /\ s[Len(s)] \in WhiteSpace
    THEN TrimEnd(SubSeq(s, 1, Len(s) - 1)) ELSE s

Trim(s) == TrimEnd(TrimStart(s))

\* Symbols that stand for exactly one character.
SingleChars == {"<", ">", "a", "b", "x", "y", ".", "$", "&", " ", "[", "]",
                "-", "_", "\""} \cup {DigitSym[i] : i \in 1..10}

-----------------------------------------------------------------------------
(* Feature parser: bdd/parser.js *)

\* params[header] = value on a plain object: an existing key keeps its place
\* in the property order and takes the new value, a new key is appended.
RECURSIVE ObjSet(_, _, _)
ObjSet(obj, key, val) ==
    IF obj = <<>> THEN <<[key |-> key, val |-> val]>>
    ELSE IF Head(obj).key = key THEN <<[key |-> key, val |-> val]>> \o Tail(obj)
    ELSE <<Head(obj)>> \o ObjSet(Tail(obj), key, val)

ObjKeys(obj) == {obj[i].key : i \in 1..Len(obj)}
ObjHas(obj, key) == key \in ObjKeys(obj)
ObjGet(obj, key) == LET i == CHOOSE j \in 1..Len(obj) : obj[j].key = key IN obj[i].val

\* One atom of the pattern new RegExp(`<${key}>`, 'g') against one symbol of
\* the text: "." is the regular-expression wildcard, every other symbol of
\* the key alphabet stands for itself.
KeyAtomMatches(k, c) ==
    IF k = "." THEN c \in SingleChars ELSE k = c

\* Does /<key>/ match the text at position i ?
PlaceholderAt(text, i, key) ==
    /\ i + Len(key) + 1 <= Len(text)
    /\ text[i] = "<"
    /\ \A j \in 1..Len(key) : KeyAtomMatches(key[j], text[i + j])
    /\ text[i + Len(key) + 1] = ">"

\* GetSubstitution of String.prototype.replace for a pattern without capture
\* groups: "$$" gives "$", "$&" gives the matched text, any other symbol after
\* "$" keeps both symbols.
RECURSIVE GetSubstitution(_, _)
GetSubstitution(val, matched) ==
    IF val = <<>> THEN <<>>
    ELSE IF Head(val) = "$" /\ Len(val) >= 2 /\ val[2] = "$"
         THEN <<"$">> \o GetSubstitution(SubSeq(val, 3, Len(val)), matched)
    ELSE IF Head(val) = "$" /\ Len(val) >= 2 /\ val[2] = "&"
         THEN matched \o GetSubstitution(SubSeq(val, 3, Len(val)), matched)
    ELSE <<Head(val)>> \o GetSubstitution(Tail(val), matched)

\* resolvedText.replace(new RegExp(`<${key}>`, 'g'), val): one left-to-right
\* pass over the text, the replacement text is not scanned again.
RECURSIVE ReplaceFrom(_, _, _, _)
ReplaceFrom(text, i, key, val) ==
    IF i > Len(text) THEN <<>>
    ELSE IF PlaceholderAt(text, i, key)
         THEN GetSubstitution(val, SubSeq(text, i, i + Len(key) + 1))
              \o ReplaceFrom(text, i + Len(key) + 2, key, val)
    ELSE <<text[i]>> \o ReplaceFrom(text, i + 1, key, val)

ReplaceAll(text, key, val) == ReplaceFrom(text, 1, key, val)

\* for (const [key, val] of Object.entries(params)) resolvedText = ...
RECURSIVE ResolveText(_, _)
ResolveText(text, params) ==
    IF params = <<>> THEN text
    ELSE ResolveText(ReplaceAll(text, Head(params).key, Head(params).val),
                     Tail(params))

\* headers.forEach((header, i) => { params[header] = values[i] || ''; })
RECURSIVE BuildParams(_, _, _, _)
BuildParams(headers, values, i, params) ==
    IF i > Len(headers) THEN params
    ELSE BuildParams(headers, values, i + 1,
            ObjSet(params, headers[i],
                   IF i <= Len(values) /\ values[i] # <<>> THEN values[i] ELSE <<>>))

\* A name that carries the 0-based row index.
ScenarioName_ZeroBased(name, examplesName, rowIndex) ==
    name \o <<" ", "[">> \o examplesName \o <<" ", "EMDASH", " ", "Row", " ">>
         \o NumberToString(rowIndex) \o <<"]">>

\* `${scenario.name} [${examplesName} <em dash> Row ${rowIndex + 1}]`; the
\* symbol "EMDASH" stands for the character U+2014.
ScenarioName(name, examplesName, rowIndex) ==
    name \o <<" ", "[">> \o examplesName \o <<" ", "EMDASH", " ", "Row", " ">>
         \o NumberToString(rowIndex + 1) \o <<"]">>

\* examples.name || 'Default'
ExamplesName(examples) ==
    IF examples.name # <<>> THEN examples.name ELSE <<"Default">>

PlainStep(step) == [keyword |-> Trim(step.keyword), text |-> step.text]

\* The body of the rowIndex loop (0-based rowIndex, as in the source).
ResolveRow(scenario, examples, rowIndex) ==
    LET headers == examples.tableHeader.v
        values  == examples.tableBody[rowIndex + 1]
        params  == BuildParams(headers, values, 1, <<>>)
    IN [name         |-> ScenarioName(scenario.name, ExamplesName(examples), rowIndex),
        tags         |-> scenario.tags \o examples.tags,
        type         |-> "scenario_outline",
        examplesName |-> Some(ExamplesName(examples)),
        parameters   |-> params,
        steps        |-> [s \in 1..Len(scenario.steps) |->
                            [keyword |-> Trim(scenario.steps[s].keyword),
                             text    |-> ResolveText(scenario.steps[s].text, params)]]]

\* The rows of one Examples table; a table without header or rows is skipped.
ResolveExamples(scenario, examples) ==
    IF ~examples.tableHeader.some \/ Len(examples.tableBody) = 0 THEN <<>>
    ELSE [r \in 1..Len(examples.tableBody) |-> ResolveRow(scenario, examples, r - 1)]

RECURSIVE ResolveTables(_, _)
ResolveTables(scenario, tables) ==
    IF tables = <<>> THEN <<>>
    ELSE ResolveExamples(scenario, Head(tables)) \o ResolveTables(scenario, Tail(tables))

resolveScenarioOutline(scenario) == ResolveTables(scenario, scenario.examples)

\* One iteration of `for (const child of feature.children)`.
ParseChild(result, child) ==
    IF child.type = "scenario"
    THEN IF Len(child.examples) > 0
         THEN [result EXCEPT !.scenarios = @ \o resolveScenarioOutline(child)]
         ELSE [result EXCEPT !.scenarios = Append(@,
                 [name         |-> child.name,
                  tags         |-> child.tags,
                  type         |-> "scenario",
                  examplesName |-> None,
                  parameters   |-> <<>>,
                  steps        |-> [s \in 1..Len(child.steps) |-> PlainStep(child.steps[s])]])]
    ELSE [result EXCEPT !.background =
            Some([name  |-> child.name,
                  steps |-> [s \in 1..Len(child.steps) |-> PlainStep(child.steps[s])]])]

RECURSIVE ParseChildren(_, _)
ParseChildren(result, children) ==
    IF children = <<>> THEN result
    ELSE ParseChildren(ParseChild(result, Head(children)), Tail(children))

\* parseFeatureFile, from the AST the Gherkin parser returned.
parseFeatureFile(feature) ==
    ParseChildren([name       |-> feature.name,
                   tags       |-> feature.tags,
                   file       |-> feature.file,
                   background |-> None,
                   scenarios  |-> <<>>],
                  feature.children)

-----------------------------------------------------------------------------
(* Step registry and matcher: bdd/steps/index.js *)

\* L_AnyPhrase(s): a broad atom in the place of the literal phrase s.
\* Pattern atoms.  L(s): the literal phrase s (its accents are dropped in the
\* symbol's spelling); D: the group (\d+); Q: the group ([^"]+).  Every
\* pattern is anchored at both ends and carries the flag i, none the flag g.
L_AnyPhrase(s) == [t |-> "notquote"]
L(s) == [t |-> "lit", s |-> s]
D    == [t |-> "digits"]
Q    == [t |-> "notquote"]
QUOTE == L("\"")

Metric(name, type, k6name) == [name |-> name, type |-> type, k6name |-> k6name]
Trend(name, k6name)   == Metric(name, "Trend", k6name)

\* A threshold generator: the metric it names and how the rule is built from
\* the first group.
Threshold(metric, rule) == Some([metric |-> metric, rule |-> rule])

StepDef(pattern, code, setup, imports, metrics, threshold) ==
    [pattern |-> pattern, code |-> code, setup |-> setup, imports |-> imports,
     metrics |-> metrics, threshold |-> threshold]

STEP_DEFINITIONS == <<
    StepDef(<<L("el sistema esta disponible")>>,
            "systemAvailable", None, <<>>, <<>>, None),
    StepDef(<<L("el usuario esta autenticado")>>,
            "authenticated", Some("setupLogin"), <<"login">>, <<>>, None),
    StepDef(<<L("el usuario tiene productos disponibles")>>,
            "productCheck", None, <<"getProducts">>, <<>>, None),
    StepDef(<<L("existe un pool de SKUs con stock")>>,
            "skuPool", Some("setupSkuPool"), <<"login", "getProducts">>, <<>>, None),
    StepDef(<<D, L(" usuarios realizan login durante "), QUOTE, Q, QUOTE>>,
            "loginAction", None, <<>>,
            <<Trend("loginDuration", "login_duration"),
              Trend("logoutDuration", "logout_duration"),
              Metric("authFailures", "Rate", "auth_failure_rate")>>, None),
    StepDef(<<L("el usuario navega productos en la pagina "), D, L(" con "), D,
              L(" resultados")>>,
            "browseProducts", None, <<"getProducts", "randomThinkTime">>,
            <<Trend("productListDuration", "product_list_duration")>>, None),
    StepDef(<<L("el usuario busca "), QUOTE, Q, QUOTE>>,
            "searchProducts", None, <<"getProducts", "randomThinkTime">>,
            <<Trend("productSearchDuration", "product_search_duration")>>, None),
    StepDef(<<L("el usuario filtra por categoria "), QUOTE, Q, QUOTE>>,
            "filterCategory", None, <<"getProducts", "randomThinkTime">>,
            <<Trend("categoryFilterDuration", "category_filter_duration")>>, None),
    StepDef(<<L("el usuario lista los usuarios del sistema")>>,
            "listUsers", None, <<"getUsers">>,
            <<Trend("userListDuration", "user_list_duration")>>, None),
    StepDef(<<L("el usuario realiza checkout con "), D, L(" productos")>>,
            "checkout", None,
            <<"getProducts", "createOrder", "getOrders", "randomItem", "randomInt",
              "randomThinkTime">>,
            <<Trend("checkoutDuration", "checkout_duration"),
              Trend("productSearchForCheckout", "product_search_for_checkout"),
              Trend("orderVerifyDuration", "order_verify_duration"),
              Metric("checkoutSuccessRate", "Rate", "checkout_success_rate"),
              Metric("stockConflicts", "Counter", "stock_conflicts_409"),
              Metric("totalOrdersCreated", "Counter", "total_orders_created"),
              Trend("e2eCheckoutDuration", "e2e_checkout_duration")>>, None),
    StepDef(<<L("el usuario lista las ordenes")>>,
            "listOrders", None, <<"getOrders">>,
            <<Trend("orderListDuration", "order_list_duration")>>, None),
    StepDef(<<L("el usuario realiza logout")>>,
            "logout", None, <<"logout">>, <<>>, None),
    StepDef(<<L("el percentil 95 del login debe ser menor a "), D, L("ms")>>,
            "assertLoginP95", None, <<>>, <<>>, Threshold("login_duration", "p95")),
    StepDef(<<L("la tasa de fallas debe ser menor a "), D, L("%")>>,
            "assertFailureRate", None, <<>>, <<>>, Threshold("http_req_failed", "rateBelow")),
    StepDef(<<L("el percentil 95 de productos debe ser menor a "), D, L("ms")>>,
            "assertProductsP95", None, <<>>, <<>>, Threshold("product_list_duration", "p95")),
    StepDef(<<L("el percentil 95 del checkout debe ser menor a "), D, L("ms")>>,
            "assertCheckoutP95", None, <<>>, <<>>, Threshold("checkout_duration", "p95")),
    StepDef(<<L("la tasa de exito del checkout debe ser mayor a "), D, L("%")>>,
            "assertCheckoutRate", None, <<>>, <<>>,
            Threshold("checkout_success_rate", "rateAbove")),
    StepDef(<<L("el percentil 95 de busqueda debe ser menor a "), D, L("ms")>>,
            "assertSearchP95", None, <<>>, <<>>, Threshold("product_search_duration", "p95")),
    StepDef(<<L("todos los endpoints deben responder correctamente")>>,
            "assertAllEndpoints", None, <<>>, <<>>, Threshold("http_req_failed", "fixed")),
    StepDef(<<L("el tiempo de respuesta general debe ser menor a "), D, L("ms")>>,
            "assertOverallP95", None, <<>>, <<>>, Threshold("http_req_duration", "p95"))
>>

\* Canonicalize of a case-insensitive match, on the symbols that have a
\* second spelling.
UpperSpelling ==
    [u \in {"EL USUARIO BUSCA ", "EL SISTEMA ESTA DISPONIBLE", "MS", "A", "B",
            "existe un pool de skus con stock"} |->
        CASE u = "EL USUARIO BUSCA " -> "el usuario busca "
          [] u = "EL SISTEMA ESTA DISPONIBLE" -> "el sistema esta disponible"
          [] u = "MS" -> "ms"
          [] u = "A" -> "a"
          [] u = "B" -> "b"
          [] u = "existe un pool de skus con stock" -> "existe un pool de SKUs con stock"]

Canonicalize(c) == IF c \in DOMAIN UpperSpelling THEN UpperSpelling[c] ELSE c

Digits == {DigitSym[i] : i \in 1..10}

InClass(t, c) == IF t = "digits" THEN c \in Digits ELSE c # "\""

\* Length of the longest run of symbols of class t that starts at text[i].
RECURSIVE RunLength(_, _, _)
RunLength(t, text, i) ==
    IF i <= Len(text) /\ InClass(t, text[i]) THEN 1 + RunLength(t, text, i + 1) ELSE 0

\* The backtracking matcher: atoms from pat[p] on against text[i..]; groups
\* holds match[0] and the groups captured so far.  A group is greedy: it
\* tries its longest run first and gives back one symbol at a time.
RECURSIVE MatchFrom(_, _, _, _, _)
RECURSIVE MatchGroup(_, _, _, _, _, _)
MatchFrom(pat, p, text, i, groups) ==
    IF p > Len(pat) THEN (IF i > Len(text) THEN Some(groups) ELSE None)
    ELSE IF pat[p].t = "lit"
    THEN IF i <= Len(text) /\ Canonicalize(text[i]) = Canonicalize(pat[p].s)
         THEN MatchFrom(pat, p + 1, text, i + 1, groups)
         ELSE None
    ELSE MatchGroup(pat, p, text, i, groups, RunLength(pat[p].t, text, i))

MatchGroup(pat, p, text, i, groups, k) ==
    IF k < 1 THEN None
    ELSE LET r == MatchFrom(pat, p + 1, text, i + k,
                            Append(groups, SubSeq(text, i, i + k - 1)))
         IN IF r.some THEN r ELSE MatchGroup(pat, p, text, i, groups, k - 1)

\* text.match(pattern): None for null, else the match array (match[n] is
\* element n + 1 of the sequence).
RegExpMatch(text, pattern) == MatchFrom(pattern, 1, text, 1, <<text>>)

\* The loop of matchStep from definition i on.
RECURSIVE MatchStepFrom(_, _, _)
MatchStepFrom(defs, i, text) ==
    IF i > Len(defs) THEN None
    ELSE IF RegExpMatch(text, defs[i].pattern).some
    THEN Some([definition |-> i, match |-> RegExpMatch(text, defs[i].pattern).v])
    ELSE MatchStepFrom(defs, i + 1, text)

\* A scan that starts one definition too late.
matchStep_SkipFirst(defs, text) == MatchStepFrom(defs, 2, text)

matchStep(defs, text) == MatchStepFrom(defs, 1, text)

-----------------------------------------------------------------------------
(* Script generator: bdd/generator.js *)

\* A JavaScript number that may be NaN.
NaN    == [nan |-> TRUE]
Num(n) == [nan |-> FALSE, n |-> n]

RECURSIVE DigitsValue(_)
DigitsValue(s) ==
    IF s = <<>> THEN 0
    ELSE 10 * DigitsValue(SubSeq(s, 1, Len(s) - 1))
         + (CHOOSE d \in 0..9 : DigitSym[d + 1] = s[Len(s)])

\* parseInt(string): leading white space, an optional sign, then the longest
\* run of decimal digits; NaN when there is no digit.  (No text of the model
\* starts with the radix prefix 0x.)
ParseInt(str) ==
    LET t    == TrimStart(str)
        neg  == t # <<>> /\ Head(t) = "-"
        rest == IF t # <<>> /\ Head(t) \in {"-", "+"} THEN Tail(t) ELSE t
        k    == RunLength("digits", rest, 1)
    IN IF k = 0 THEN NaN
       ELSE Num((IF neg THEN -1 ELSE 1) * DigitsValue(SubSeq(rest, 1, k)))

\* parseInt(params.x) || 1, with params.x undefined when the key is absent.
ParseIntOr1(params, key) ==
    LET r == IF ObjHas(params, key) THEN ParseInt(ObjGet(params, key)) ELSE NaN
    IN IF r.nan \/ r.n = 0 THEN 1 ELSE r.n

\* /^(\d+)(s|m|h)$/i, else 60
parseDurationToSeconds(duration) ==
    LET n == Len(duration)
    IN IF n >= 2 /\ RunLength("digits", duration, 1) = n - 1
          /\ duration[n] \in {"s", "m", "h", "S", "M", "H"}
       THEN LET val == DigitsValue(SubSeq(duration, 1, n - 1))
            IN CASE duration[n] \in {"s", "S"} -> val
                 [] duration[n] \in {"m", "M"} -> val * 60
                 [] duration[n] \in {"h", "H"} -> val * 3600
       ELSE 60

\* params.duration || '30s'
DurationParam(params) ==
    IF ObjHas(params, <<"duration">>) /\ ObjGet(params, <<"duration">>) # <<>>
    THEN ObjGet(params, <<"duration">>) ELSE <<"3", "0", "s">>

Stage(seconds, vus) ==
    [duration |-> NumberToString(seconds) \o <<"s">>, target |-> vus]

\* A guard that takes either condition for both.
IsSmoke_Either(vus, totalSeconds) == vus <= 1 \/ totalSeconds <= 30

\* The smoke-test guard of buildStages.
IsSmoke(vus, totalSeconds) == vus <= 1 /\ totalSeconds <= 30

\* Math.floor(x * 0.2), Math.floor(x * 0.15), Math.floor(x * 0.1): the
\* floating-point products floor to the exact quotients for every integer of
\* the range of the model.
Floor20(x) == (x * 20) \div 100
Floor15(x) == (x * 15) \div 100
Floor10(x) == (x * 10) \div 100

\* A steady stage computed from the clamped ramp-down.
SteadySeconds_FromRampDown(totalSeconds, rampUp) ==
    Max(10, totalSeconds - rampUp - Max(5, Floor15(totalSeconds)))

\* A steady stage that is its own floored share of the total.
SteadySeconds_FlooredShare(totalSeconds, rampUp) ==
    Max(10, (totalSeconds * 65) \div 100)

SteadySeconds(totalSeconds, rampUp) ==
    Max(10, totalSeconds - rampUp - Floor15(totalSeconds))

\* The three stages of buildStages.
RampStages(vus, totalSeconds, rampUp) ==
    <<Stage(rampUp, vus),
      Stage(SteadySeconds(totalSeconds, rampUp), vus),
      Stage(Max(5, Floor15(totalSeconds)), 0)>>

\* buildStages from vus and totalSeconds: None for null.
StagesFor(vus, totalSeconds) ==
    IF IsSmoke(vus, totalSeconds) THEN None
    ELSE Some(RampStages(vus, totalSeconds, Max(10, Floor20(totalSeconds))))

buildStages(params) ==
    StagesFor(ParseIntOr1(params, <<"vus">>),
              parseDurationToSeconds(DurationParam(params)))

\* String.prototype.toLowerCase on the symbols that have capitals.
LowerSpelling ==
    [u \in {"A", "B", "T", "P", "F", "Row", "Default", "Load", "Test"} |->
        CASE u = "A" -> "a" [] u = "B" -> "b" [] u = "T" -> "t" [] u = "P" -> "p"
          [] u = "F" -> "f" [] u = "Row" -> "row" [] u = "Default" -> "default"
          [] u = "Load" -> "load" [] u = "Test" -> "test"]

ToLowerCase(str) ==
    [i \in 1..Len(str) |->
        IF str[i] \in DOMAIN LowerSpelling THEN LowerSpelling[str[i]] ELSE str[i]]

\* Symbols made of characters a-z and 0-9 only.
Alnum == {"a", "b", "x", "y", "t", "p", "f", "row", "default", "load", "test"} \cup Digits

\* .replace(/[^a-z0-9]+/g, sep)
RECURSIVE ReplaceNonAlnumRuns(_, _)
ReplaceNonAlnumRuns(str, sep) ==
    IF str = <<>> THEN <<>>
    ELSE IF Head(str) \in Alnum THEN <<Head(str)>> \o ReplaceNonAlnumRuns(Tail(str), sep)
    ELSE IF Len(str) >= 2 /\ str[2] \notin Alnum THEN ReplaceNonAlnumRuns(Tail(str), sep)
    ELSE <<sep>> \o ReplaceNonAlnumRuns(Tail(str), sep)

\* .replace(/-+/g, '-')
RECURSIVE CollapseRuns(_, _)
CollapseRuns(str, sep) ==
    IF str = <<>> THEN <<>>
    ELSE IF Head(str) = sep /\ Len(str) >= 2 /\ str[2] = sep THEN CollapseRuns(Tail(str), sep)
    ELSE <<Head(str)>> \o CollapseRuns(Tail(str), sep)

\* A trim that leaves the separator at the end.
TrimSeparator_LeadingOnly(str, sep) ==
    IF str # <<>> /\ Head(str) = sep THEN Tail(str) ELSE str

\* .replace(/^-|-$/g, '')
TrimSeparator(str, sep) ==
    LET a == IF str # <<>> /\ Head(str) = sep THEN Tail(str) ELSE str
    IN IF a # <<>> /\ a[Len(a)] = sep THEN SubSeq(a, 1, Len(a) - 1) ELSE a

Slug(name, sep) ==
    TrimSeparator(CollapseRuns(ReplaceNonAlnumRuns(ToLowerCase(name), sep), sep), sep)

\* Number of characters of a symbol, and .substring(0, n): the longest prefix
\* of whole symbols of at most n characters.
Width(c) ==
    CASE c \in {"row"} -> 3 [] c \in {"load", "test"} -> 4 [] c \in {"default"} -> 7
      [] OTHER -> 1

RECURSIVE Substring0(_, _)
Substring0(str, n) ==
    IF str = <<>> \/ Width(Head(str)) > n THEN <<>>
    ELSE <<Head(str)>> \o Substring0(Tail(str), n - Width(Head(str)))

ScenarioKeyLength == 40

\* The options object of buildK6Options, given vus and the stages.
OptionsFor(scenario, thresholds, vus, stages) ==
    [scenarios  |-> IF stages.some
                    THEN Some([key      |-> Substring0(Slug(scenario.name, "_"), ScenarioKeyLength),
                               executor |-> "ramping-vus",
                               startVUs |-> Max(1, Floor10(vus)),
                               stages   |-> stages.v])
                    ELSE None,
     vus        |-> IF stages.some THEN None ELSE Some(vus),
     iterations |-> IF stages.some THEN None
                    ELSE Some(ParseIntOr1(scenario.parameters, <<"iterations">>)),
     thresholds |-> IF Len(thresholds) > 0 THEN Some(thresholds) ELSE None]

buildK6Options(scenario, thresholds) ==
    OptionsFor(scenario, thresholds, ParseIntOr1(scenario.parameters, <<"vus">>),
               buildStages(scenario.parameters))

\* A list that takes a value it already holds once more.
SetAdd_Always(set, x) == Append(set, x)

\* Set.prototype.add on a set kept in insertion order.
SetAdd(set, x) == IF \E i \in 1..Len(set) : set[i] = x THEN set ELSE Append(set, x)

RECURSIVE SetAddAll(_, _)
SetAddAll(set, xs) == IF xs = <<>> THEN set ELSE SetAddAll(SetAdd(set, Head(xs)), Tail(xs))

\* definition.metrics.forEach(m => collectedMetrics.set(m.name, m))
RECURSIVE MapSetAll(_, _)
MapSetAll(map, ms) ==
    IF ms = <<>> THEN map ELSE MapSetAll(ObjSet(map, Head(ms).name, Head(ms)), Tail(ms))

\* Number::toString of n / 100 for an integer n >= 0.
Hundredths(n) ==
    NumberToString(n \div 100)
    \o (IF n % 100 = 0 THEN <<>>
        ELSE IF n % 10 = 0 THEN <<".", DigitSym[((n % 100) \div 10) + 1]>>
        ELSE <<".", DigitSym[((n % 100) \div 10) + 1], DigitSym[(n % 10) + 1]>>)

\* definition.threshold(match)
ThresholdOf(def, match) ==
    [metric |-> def.threshold.v.metric,
     rule   |-> CASE def.threshold.v.rule = "p95" -> <<"p(95)<">> \o match[2]
                  [] def.threshold.v.rule = "rateBelow" ->
                        <<"rate<">> \o Hundredths(ParseInt(match[2]).n)
                  [] def.threshold.v.rule = "rateAbove" ->
                        <<"rate>">> \o Hundredths(ParseInt(match[2]).n)
                  [] def.threshold.v.rule = "fixed" -> <<"rate<0.10">>]

\* A rule that replaces the rules its metric already has.
PushThreshold_Overwrite(thresholds, th) == ObjSet(thresholds, th.metric, <<th.rule>>)

\* collectedThresholds[th.metric] gets th.rule pushed, after being made an
\* empty list when the metric has none yet.
PushThreshold(thresholds, th) ==
    IF ObjHas(thresholds, th.metric)
    THEN ObjSet(thresholds, th.metric, Append(ObjGet(thresholds, th.metric), th.rule))
    ELSE ObjSet(thresholds, th.metric, <<th.rule>>)

\* The fields of the context object `data` that the code of a definition
\* reads: data.token, or a destructuring of data.
TemplateReads(template) ==
    CASE template \in {"authenticated", "productCheck", "browseProducts", "searchProducts",
                       "filterCategory", "listUsers", "listOrders", "logout"} -> {"token"}
      [] template \in {"skuPool", "checkout"} -> {"token", "skuPool"}
      [] OTHER -> {}

\* The symbols of the collaborator libraries that the code of a definition
\* uses.
TemplateUses(template) ==
    CASE template = "productCheck" -> {"getProducts"}
      [] template = "loginAction" -> {"BASE_URL"}
      [] template \in {"browseProducts", "searchProducts", "filterCategory"} ->
            {"getProducts", "randomThinkTime"}
      [] template = "listUsers" -> {"getUsers"}
      [] template = "checkout" ->
            {"getProducts", "randomInt", "randomThinkTime", "randomItem", "createOrder",
             "getOrders"}
      [] template = "listOrders" -> {"getOrders"}
      [] template = "logout" -> {"logout"}
      [] OTHER -> {}

\* The symbols of the collaborator libraries that setup code uses.
SetupUses(setup) ==
    CASE setup = "setupLogin" -> {"login"}
      [] setup = "setupSkuPool" -> {"login", "getProducts"}

\* The fields of the object that setup code returns.
SetupReturns(setup) ==
    CASE setup = "setupLogin" -> {"token"}
      [] setup = "setupSkuPool" -> {"token", "skuPool"}

\* definition.code(match): the template of the definition filled with the
\* captured groups match[1..].
CodeOf(def, match) == [template |-> def.code, groups |-> Tail(match)]

UnrecognizedComment(step) ==
    [template |-> "unrecognized", groups |-> <<step.keyword, step.text>>]

EmptyCollected ==
    [imports |-> <<>>, metrics |-> <<>>, thresholds |-> <<>>, codeBlocks |-> <<>>,
     setupCode |-> None]

Block(step, code) == [keyword |-> step.keyword, stepText |-> step.text, code |-> code]

\* The body of the step loop for a matched step: code, imports, metrics,
\* threshold and setup of the definition are collected.
\* Setup code that is kept once a step has declared some.
SetupAfter_FirstWins(setupCode, def) == IF setupCode.some THEN setupCode ELSE def.setup

\* if (definition.setup) setupCode = definition.setup
SetupAfter(setupCode, def) == IF def.setup.some THEN def.setup ELSE setupCode

CollectMatched(c, step, def, match) ==
    [codeBlocks |-> Append(c.codeBlocks, Block(step, CodeOf(def, match))),
     imports    |-> SetAddAll(c.imports, def.imports),
     metrics    |-> MapSetAll(c.metrics, def.metrics),
     thresholds |-> IF def.threshold.some
                    THEN PushThreshold(c.thresholds, ThresholdOf(def, match))
                    ELSE c.thresholds,
     setupCode  |-> SetupAfter(c.setupCode, def)]

\* An unmatched step that is dropped instead of kept as a comment.
CollectStep_DropUnmatched(c, step, result) ==
    IF ~result.some THEN c
    ELSE CollectMatched(c, step, STEP_DEFINITIONS[result.v.definition], result.v.match)

\* The body of the step loop, given the value matchStep returned.
CollectStep(c, step, result) ==
    IF ~result.some
    THEN [c EXCEPT !.codeBlocks = Append(@, Block(step, UnrecognizedComment(step)))]
    ELSE CollectMatched(c, step, STEP_DEFINITIONS[result.v.definition], result.v.match)

\* One iteration of `for (const step of scenario.steps)`.
ProcessStep(c, step) == CollectStep(c, step, matchStep(STEP_DEFINITIONS, step.text))

RECURSIVE ProcessSteps(_, _)
ProcessSteps(c, steps) ==
    IF steps = <<>> THEN c ELSE ProcessSteps(ProcessStep(c, Head(steps)), Tail(steps))

Named(names, from) == [names |-> names, from |-> from]

AUTH_EXPORTS     == <<"login", "logout", "getAuthHeaders">>
ENDPOINT_EXPORTS == <<"getProducts", "createProduct", "updateProduct", "getUsers",
                      "createUser", "createOrder", "getOrders">>
HELPER_EXPORTS   == <<"checkResponse", "parseResponse", "randomItem", "randomInt",
                      "generateEmail", "generateUserName", "generateSku",
                      "generateProductName", "randomThinkTime", "getTimestamp">>
CONFIG_EXPORTS   == <<"BASE_URL", "USERNAME", "PASSWORD">>

Includes(arr, x) == \E i \in 1..Len(arr) : arr[i] = x

\* The library an import falls into, by the if / else-if chain of
\* buildImportStatements; "none" for a symbol no library exports.
LibraryOf(imp) ==
    IF Includes(AUTH_EXPORTS, imp) THEN "auth"
    ELSE IF Includes(ENDPOINT_EXPORTS, imp) THEN "endpoints"
    ELSE IF Includes(HELPER_EXPORTS, imp) THEN "helpers"
    ELSE IF Includes(CONFIG_EXPORTS, imp) THEN "config"
    ELSE "none"

LibImports(imports, lib) == SelectSeq(imports, LAMBDA imp : LibraryOf(imp) = lib)

\* A list that is left as the steps made it.
PushIfMissing_Never(list, x) == list

\* if (!list.includes(x)) list.push(x)
PushIfMissing(list, x) == IF Includes(list, x) THEN list ELSE Append(list, x)

\* An import line, or none when the list of names is empty.
NamedIfAny(names, from) == IF Len(names) > 0 THEN <<Named(names, from)>> ELSE <<>>

RECURSIVE MetricTypes(_)
MetricTypes(metrics) ==
    IF metrics = <<>> THEN <<>>
    ELSE SetAddAll(<<Head(metrics).val.type>>, MetricTypes(Tail(metrics)))

\* buildImportStatements: one record per import line.
buildImportStatements(imports, metrics) ==
    <<Named(<<"sleep", "group">>, "k6"),
      [default |-> "http", from |-> "k6/http"],
      Named(<<"check">>, "k6")>>
    \o NamedIfAny(MetricTypes(metrics), "k6/metrics")
    \o NamedIfAny(PushIfMissing(LibImports(imports, "config"), "BASE_URL"),
                  "../../lib/config.js")
    \o NamedIfAny(LibImports(imports, "auth"), "../../lib/auth.js")
    \o NamedIfAny(LibImports(imports, "endpoints"), "../../lib/endpoints.js")
    \o NamedIfAny(PushIfMissing(LibImports(imports, "helpers"), "getTimestamp"),
                  "../../lib/helpers.js")
    \o <<Named(<<"htmlReport">>, "k6-reporter"), Named(<<"textSummary">>, "k6-summary")>>

\* buildMetricsDeclarations: one record per `const name = new Type(...)` line;
\* a Trend is declared with its isTime flag (true for every Trend of the
\* registry), a metric of another kind than the four gets no line.
DeclarationLines(known) ==
    [i \in 1..Len(known) |->
        [name |-> known[i].val.name, type |-> known[i].val.type,
         k6name |-> known[i].val.k6name, isTime |-> known[i].val.type = "Trend"]]

buildMetricsDeclarations(metrics) ==
    DeclarationLines(SelectSeq(metrics, LAMBDA e :
                        e.val.type \in {"Trend", "Rate", "Counter", "Gauge"}))

\* block.stepText.replace(/'/g, "\\'")
RECURSIVE EscapeQuotes(_)
EscapeQuotes(str) ==
    IF str = <<>> THEN <<>>
    ELSE (IF Head(str) = "'" THEN <<"\\", "'">> ELSE <<Head(str)>>) \o EscapeQuotes(Tail(str))

\* Values of new Date().toISOString().
Instants == {"t1", "t2"}

\* generateSingleScript: the script text as the sequence of its sections;
\* now is the value of new Date().toISOString().
\* needsData ? 'data' : ''
DefaultParam(c) == IF c.setupCode.some THEN "data" ELSE ""

\* The assembly of the script from what the step loop collected.
AssembleScript(feature, scenario, now, c) ==
    [header |-> [feature     |-> feature.name,
                 scenario    |-> scenario.name,
                 examples    |-> IF scenario.examplesName.some
                                 THEN scenario.examplesName.v ELSE <<"N/A">>,
                 parameters  |-> scenario.parameters,
                 generatedAt |-> now],
     importStatements    |-> buildImportStatements(c.imports, c.metrics),
     metricsDeclarations |-> buildMetricsDeclarations(c.metrics),
     options  |-> buildK6Options(scenario, c.thresholds),
     setup    |-> c.setupCode,
     default  |-> [param  |-> DefaultParam(c),
                   groups |-> [b \in 1..Len(c.codeBlocks) |->
                                 [label |-> c.codeBlocks[b].keyword \o <<" ">>
                                            \o EscapeQuotes(c.codeBlocks[b].stepText),
                                  code  |-> c.codeBlocks[b].code]]],
     teardown |-> [param |-> DefaultParam(c), name |-> EscapeQuotes(scenario.name)],
     handleSummary |-> [reportName |-> Slug(scenario.name, "-")]]

\* A step loop that runs the steps of the Background before the scenario's.
StepsToProcess_WithBackground(feature, scenario) ==
    (IF feature.background.some THEN feature.background.v.steps ELSE <<>>) \o scenario.steps

\* for (const step of scenario.steps): the steps of the scenario alone.
StepsToProcess(feature, scenario) == scenario.steps

generateSingleScript(feature, scenario, now) ==
    AssembleScript(feature, scenario, now,
                   ProcessSteps(EmptyCollected, StepsToProcess(feature, scenario)))

-----------------------------------------------------------------------------
(* generateK6Scripts and the runner: bdd/generator.js, bdd/runner.js *)

\* `${safeName}.js` under the output directory.
ScriptPath(name) == Slug(name, "-") \o <<".js">>

\* The loop of generateK6Scripts: g.files is the content of the output
\* directory, g.ops the writes made, g.generated the scripts returned.
\* A write that leaves an existing file as it is.
WriteScript_KeepExisting(g, scenario, code, filePath) ==
    [files     |-> IF ObjHas(g.files, filePath) THEN g.files
                   ELSE ObjSet(g.files, filePath, code),
     ops       |-> Append(g.ops, filePath),
     generated |-> Append(g.generated,
                     [name |-> scenario.name, code |-> code, path |-> filePath,
                      parameters |-> scenario.parameters,
                      examplesName |-> scenario.examplesName])]

\* fs.writeFileSync(filePath, script) and generatedScripts.push(...)
WriteScript(g, scenario, code, filePath) ==
    [files     |-> ObjSet(g.files, filePath, code),
     ops       |-> Append(g.ops, filePath),
     generated |-> Append(g.generated,
                     [name |-> scenario.name, code |-> code, path |-> filePath,
                      parameters |-> scenario.parameters,
                      examplesName |-> scenario.examplesName])]

RECURSIVE WriteScripts(_, _, _, _)
WriteScripts(feature, scenarios, now, g) ==
    IF scenarios = <<>> THEN g
    ELSE WriteScripts(feature, Tail(scenarios), now,
            WriteScript(g, Head(scenarios),
                        generateSingleScript(feature, Head(scenarios), now),
                        ScriptPath(Head(scenarios).name)))

\* The readings the clock can give after the scripts generated so far.
ClockAfter(generated) ==
    IF generated = <<>> \/ generated[Len(generated)].code.header.generatedAt = "t1"
    THEN Instants
    ELSE {"t2"}

\* Can generateK6Scripts complete on this directory ?  mkdirSync throws on a
\* missing directory that cannot be created, writeFileSync on the first
\* script of a directory that cannot be written.
CanGenerate(feature, dir) ==
    dir.writable \/ (dir.exists /\ Len(feature.scenarios) = 0)

GeneratedInto(dir, g) ==
    [dir       |-> [exists |-> TRUE, writable |-> dir.writable,
                    files |-> g.files, ops |-> g.ops],
     generated |-> g.generated]

generateK6Scripts(feature, dir, now) ==
    GeneratedInto(dir,
        WriteScripts(feature, feature.scenarios, now,
            [files |-> dir.files,
             ops   |-> IF dir.exists THEN dir.ops ELSE Append(dir.ops, <<"mkdir">>),
             generated |-> <<>>]))

\* Order of the characters of file names, and the array sort of
\* parseAllFeatures (names of one directory are distinct).
CharOrder == <<".feature", ".txt", "a", "b", "c", "d", "n">>
CharRank(c) == CHOOSE i \in 1..Len(CharOrder) : CharOrder[i] = c

RECURSIVE NameLess(_, _)
NameLess(m, n) ==
    IF m = <<>> THEN n # <<>>
    ELSE IF n = <<>> THEN FALSE
    ELSE IF Head(m) = Head(n) THEN NameLess(Tail(m), Tail(n))
    ELSE CharRank(Head(m)) < CharRank(Head(n))

\* A sort that puts the greatest name first.
SortByName_Descending(entries) ==
    CHOOSE q \in [1..Cardinality(entries) -> entries] :
        \A i, j \in 1..Cardinality(entries) : i < j => NameLess(q[j].name, q[i].name)

SortByName(entries) ==
    CHOOSE q \in [1..Cardinality(entries) -> entries] :
        \A i, j \in 1..Cardinality(entries) : i < j => NameLess(q[i].name, q[j].name)

EndsWithFeature(name) == name # <<>> /\ name[Len(name)] = ".feature"

\* A runner that generates whatever the flags say.
AfterParsing_IgnoreParseOnly(opts) == "Generating"

\* The phase that follows Parsing and the one that follows Generating.
AfterParsing(opts) == IF opts.parseOnly THEN "PrintedJSON" ELSE "Generating"
AfterGenerating(opts) == IF opts.generateOnly THEN "GeneratedOnly" ELSE "Executing"

\* A file that cannot be parsed is left out and the run goes on.
AfterParseFailure_Skip == "Parsing"

\* parseFeatureFile throws out of the main try block: the catch ends the run.
AfterParseFailure == "Fatal"

\* A failed engine run that ends the runner.
AfterEngineFailure_Abort == "Fatal"

\* The catch block of the execution loop: the loop goes on.
AfterEngineFailure == "Executing"

\* A flag that only remembers the last result.
AllPassedAfter_LastWins(flag, status) == status = "PASS"

\* allPassed after one result.
AllPassedAfter(flag, status) == IF status = "FAIL" THEN FALSE ELSE flag

Enter(p) == phase' = p /\ trace' = Append(trace, p)

\* The catch of the main try block: process.exit(1).
Fatal == Enter("Fatal") /\ exitCode' = Some(1)

\* fs.statSync(target), then the file list of parseAllFeatures or the one file.
StartParsing ==
    /\ phase = "Init"
    /\ IF target.kind = "missing"
       THEN Fatal /\ UNCHANGED pending
       ELSE IF target.kind = "file"
       THEN Enter("Parsing") /\ pending' = <<target.entry>> /\ UNCHANGED exitCode
       ELSE LET files == {e \in target.entries : EndsWithFeature(e.name)}
            IN IF files = {}
               THEN Fatal /\ UNCHANGED pending
               ELSE Enter("Parsing") /\ pending' = SortByName(files) /\ UNCHANGED exitCode
    /\ UNCHANGED <<pc, parseVars, matchVars, genVars, options, target, features,
                   outputDir, allGenerated, inFlight, engineLog, results, allPassed>>

\* parseFeatureFile on the next file; a file the Gherkin parser rejects, or
\* one without a Feature, makes it throw.
ParseNext ==
    /\ phase = "Parsing" /\ pending # <<>>
    /\ IF Head(pending).content.some
       THEN /\ features' = Append(features, parseFeatureFile(Head(pending).content.v))
            /\ pending' = Tail(pending)
            /\ UNCHANGED <<phase, trace, exitCode>>
       ELSE IF AfterParseFailure = "Fatal"
       THEN Fatal /\ UNCHANGED <<features, pending>>
       ELSE pending' = Tail(pending) /\ UNCHANGED <<features, phase, trace, exitCode>>
    /\ UNCHANGED <<pc, parseVars, matchVars, genVars, options, target,
                   outputDir, allGenerated, inFlight, engineLog, results, allPassed>>

\* End of phase 1: with --parse-only the JSON is printed and the process exits.
FinishParsing ==
    /\ phase = "Parsing" /\ pending = <<>>
    /\ Enter(AfterParsing(options))
    /\ IF AfterParsing(options) = "PrintedJSON"
       THEN exitCode' = Some(0) /\ UNCHANGED pending
       ELSE pending' = features /\ UNCHANGED exitCode
    /\ UNCHANGED <<pc, parseVars, matchVars, genVars, options, target, features,
                   outputDir, allGenerated, inFlight, engineLog, results, allPassed>>

\* generateK6Scripts on the next feature.
GenerateFeature ==
    /\ phase = "Generating" /\ pending # <<>>
    /\ IF CanGenerate(Head(pending), outputDir)
       THEN \E now \in ClockAfter(allGenerated) :
              \E g \in {generateK6Scripts(Head(pending), outputDir, now)} :
                 /\ outputDir' = g.dir
                 /\ allGenerated' = allGenerated \o g.generated
                 /\ pending' = Tail(pending)
                 /\ UNCHANGED <<phase, trace, exitCode>>
       ELSE Fatal /\ UNCHANGED <<outputDir, allGenerated, pending>>
    /\ UNCHANGED <<pc, parseVars, matchVars, genVars, options, target, features,
                   inFlight, engineLog, results, allPassed>>

\* End of phase 2: with --generate-only the process exits.
FinishGenerating ==
    /\ phase = "Generating" /\ pending = <<>>
    /\ Enter(AfterGenerating(options))
    /\ exitCode' = IF AfterGenerating(options) = "GeneratedOnly" THEN Some(0) ELSE exitCode
    /\ UNCHANGED <<pc, parseVars, matchVars, genVars, options, target, pending, features,
                   outputDir, allGenerated, inFlight, engineLog, results, allPassed>>

\* The environment entries the runner always passes.
DefaultEnvs ==
    << <<"BASE_URL", "=", "https://perfappdemo.vercel.app">>,
       <<"USERNAME", "=", "ghauyon">>,
       <<"PASSWORD", "=", "user4Test">> >>

\* allEnvs.map(e => `-e ${e}`).join(' ')
RECURSIVE EnvString(_)
EnvString(envs) ==
    IF envs = <<>> THEN <<>>
    ELSE <<"-e", " ">> \o Head(envs)
         \o (IF Len(envs) > 1 THEN <<" ">> \o EnvString(Tail(envs)) ELSE <<>>)

\* `k6 run ${envString} "${script.path}"`
Command(envVars, path) ==
    <<"k6", " ", "run", " ">> \o EnvString(DefaultEnvs \o envVars)
    \o <<" ", "\"">> \o path \o <<"\"">>

\* A run that waits for the engine before it starts it again.
CanStart_Async(flight) == TRUE

\* execSync blocks the runner until the engine has exited: no engine is
\* started while one is in flight.
CanStart(flight) == flight = {}

\* execSync starts `k6 run` on the path of the next script; the engine reads
\* whatever file is at that path.
EngineStart ==
    /\ phase = "Executing" /\ CanStart(inFlight)
    /\ Len(results) < Len(allGenerated)
    /\ LET k == Len(results) + 1
       IN /\ inFlight' = inFlight \cup {Len(engineLog) + 1}
          /\ engineLog' = Append(engineLog,
                            [script |-> k, path |-> allGenerated[k].path,
                             cmd    |-> Command(options.envVars, allGenerated[k].path),
                             runs   |-> ObjGet(outputDir.files, allGenerated[k].path)
                                           .header.scenario])
    /\ UNCHANGED <<pc, parseVars, matchVars, genVars, phase, options, target, pending,
                   features, outputDir, allGenerated, results, allPassed, exitCode, trace>>

Outcomes == {"exit 0", "exit non-zero", "timeout"}

\* execSync returns (exit 0) or throws (non-zero exit, or the 10 min timeout).
EngineExit ==
    /\ phase = "Executing" /\ inFlight # {}
    /\ \E outcome \in Outcomes :
          LET k      == engineLog[CHOOSE i \in inFlight : TRUE].script
              status == IF outcome = "exit 0" THEN "PASS" ELSE "FAIL"
          IN /\ results' = Append(results,
                              [name |-> allGenerated[k].name, status |-> status,
                               output |-> outcome])
             /\ allPassed' = AllPassedAfter(allPassed, status)
             /\ IF status = "FAIL" /\ AfterEngineFailure # "Executing"
                THEN Fatal
                ELSE UNCHANGED <<phase, trace, exitCode>>
    /\ inFlight' = {}
    /\ UNCHANGED <<pc, parseVars, matchVars, genVars, options, target, pending,
                   features, outputDir, allGenerated, engineLog>>

\* One line of the final summary: `  ${icon} ${r.name}: ${r.status}`.
SummaryLine(r) ==
    <<IF r.status = "PASS" THEN "OK" ELSE "KO", " ">> \o r.name \o <<":", " ", r.status>>

\* What the final summary prints: one line per result and the three counts.
FinalSummary(res) ==
    [lines  |-> [k \in 1..Len(res) |-> SummaryLine(res[k])],
     total  |-> Len(res),
     passed |-> Cardinality({k \in 1..Len(res) : res[k].status = "PASS"}),
     failed |-> Cardinality({k \in 1..Len(res) : res[k].status = "FAIL"})]

\* The loop is over: the final summary is printed.
Summarize ==
    /\ phase = "Executing" /\ inFlight = {}
    /\ Len(results) = Len(allGenerated)
    /\ Enter("Summarizing")
    /\ UNCHANGED <<pc, parseVars, matchVars, genVars, options, target, pending, features,
                   outputDir, allGenerated, inFlight, engineLog, results, allPassed,
                   exitCode>>

\* process.exit(allPassed ? 0 : 1)
Exit ==
    /\ phase = "Summarizing"
    /\ Enter("Done")
    /\ exitCode' = Some(IF allPassed THEN 0 ELSE 1)
    /\ UNCHANGED <<pc, parseVars, matchVars, genVars, options, target, pending, features,
                   outputDir, allGenerated, inFlight, engineLog, results, allPassed>>

-----------------------------------------------------------------------------
(* Inputs of the parser specification *)

Seqs(S, lo, hi) == UNION {[1..n -> S] : n \in lo..hi}

StepOf(kw, text) == [keyword |-> <<kw, " ">>, text |-> text]

\* Families of Examples tables: named or unnamed, without a table, with
\* distinct or repeated header names, with full and short rows.
StructHeads ==
    {[name |-> <<>>, header |-> << <<"a">>, <<"b">> >>],
     [name |-> <<"Load">>, header |-> << <<"a">>, <<"a">> >>]}
StructRows == {<< <<"x">>, <<"y">> >>, << <<"y">> >>}

StructTables ==
    {[name |-> h.name, tags |-> <<>>, tableHeader |-> Some(h.header), tableBody |-> b] :
        h \in StructHeads, b \in Seqs(StructRows, 0, MaxRows)}
    \cup {[name |-> <<>>, tags |-> <<>>, tableHeader |-> None, tableBody |-> <<>>]}

PlainChild ==
    [type |-> "scenario", name |-> <<"P">>, tags |-> <<>>,
     steps |-> <<StepOf("Dado", <<"<", "a", ">">>)>>, examples |-> <<>>]

BackgroundChild ==
    [type |-> "background", name |-> <<>>, steps |-> <<StepOf("Dado", <<"x">>)>>]

OutlineChild(steps, tables) ==
    [type |-> "scenario", name |-> <<"T">>, tags |-> <<"@t">>,
     steps |-> steps, examples |-> tables]

FeatureOf(children) ==
    [name |-> <<"F">>, tags |-> <<>>, file |-> <<"f.feature">>, children |-> children]

StructFeatures ==
    {FeatureOf(pre \o <<OutlineChild(<<StepOf("Cuando", <<"<", "a", ">", "<", "b", ">">>)>>, t)>>) :
        pre \in {<<>>, <<BackgroundChild, PlainChild>>},
        t \in Seqs(StructTables, 1, MaxTables)}

\* Families of step texts: every text of at most MaxTextLen symbols over
\* TextAlphabet, resolved against one row of one table.
TextAlphabet == {"<", ">", "a", "b"}
TextHeaders  == {<< <<"a">> >>, << <<".">> >>, << <<"a">>, <<"b">> >>, << <<"b">>, <<"a">> >>}
TextValues   == {<<>>, <<"x">>, <<"a">>, <<"<", "a", ">">>, <<"<", "b", ">">>,
                 <<"$", "&">>, <<"$", "$">>}

TextRows ==
    {<<v>> : v \in TextValues}
    \cup {<<v, w>> : v \in TextValues, w \in {<<"x">>, <<"<", "a", ">">>}}

TextTables ==
    {[name |-> <<"Load">>, tags |-> <<>>, tableHeader |-> Some(h), tableBody |-> <<r>>] :
        h \in TextHeaders, r \in TextRows}

TextFeatures ==
    {FeatureOf(<<OutlineChild(<<StepOf("Cuando", txt)>>, <<t>>)>>) :
        txt \in Seqs(TextAlphabet, 0, MaxTextLen),
        t \in {u \in TextTables : Len(u.tableBody[1]) = Len(u.tableHeader.v)}}

FeatureInputs == StructFeatures \cup TextFeatures

-----------------------------------------------------------------------------
(* Values of the variables a specification does not use *)

IdleParse == ast = None /\ parsed = None
IdleMatch == stepText = <<>> /\ registry = <<>> /\ matchResult = None /\ prevResult = None
IdleGen   == genInput = None /\ script = None
IdleRun   ==
    /\ phase = "Idle" /\ options = None /\ target = None /\ pending = <<>>
    /\ features = <<>> /\ outputDir = None /\ allGenerated = <<>> /\ inFlight = {}
    /\ engineLog = <<>> /\ results = <<>> /\ allPassed = TRUE /\ exitCode = None
    /\ trace = <<>>

-----------------------------------------------------------------------------
(* Specification of the parser: parseFeatureFile applied to one feature *)

InitParse ==
    /\ pc = "parse"
    /\ ast \in {Some(f) : f \in FeatureInputs}
    /\ parsed = None
    /\ IdleMatch /\ IdleGen /\ IdleRun

ParseFeatureFile ==
    /\ pc = "parse"
    /\ parsed' = Some(parseFeatureFile(ast.v))
    /\ pc' = "parsed"
    /\ UNCHANGED <<ast, matchVars, genVars, runVars>>

NextParse == ParseFeatureFile

SpecParse == InitParse /\ [][NextParse]_vars

-----------------------------------------------------------------------------
(* Specification of the matcher: matchStep called repeatedly on one text *)

\* One text per definition of the registry.
CanonicalTexts == {
    <<"el sistema esta disponible">>,
    <<"el usuario esta autenticado">>,
    <<"el usuario tiene productos disponibles">>,
    <<"existe un pool de skus con stock">>,
    <<"2", "0", " usuarios realizan login durante ", "\"", "2", "m", "\"">>,
    <<"el usuario navega productos en la pagina ", "1", " con ", "1", "0", " resultados">>,
    <<"el usuario busca ", "\"", "x", " ", "y", "\"">>,
    <<"el usuario filtra por categoria ", "\"", "x", "\"">>,
    <<"el usuario lista los usuarios del sistema">>,
    <<"el usuario realiza checkout con ", "2", " productos">>,
    <<"el usuario lista las ordenes">>,
    <<"el usuario realiza logout">>,
    <<"el percentil 95 del login debe ser menor a ", "5", "0", "0", "ms">>,
    <<"la tasa de fallas debe ser menor a ", "2", "0", "%">>,
    <<"el percentil 95 de productos debe ser menor a ", "5", "0", "0", "ms">>,
    <<"el percentil 95 del checkout debe ser menor a ", "5", "0", "0", "ms">>,
    <<"la tasa de exito del checkout debe ser mayor a ", "5", "0", "%">>,
    <<"el percentil 95 de busqueda debe ser menor a ", "5", "0", "0", "ms">>,
    <<"todos los endpoints deben responder correctamente">>,
    <<"el tiempo de respuesta general debe ser menor a ", "3", "0", "0", "0", "ms">>}

MatchAlphabet == {"el usuario busca ", "EL USUARIO BUSCA ", "\"", "x", "1",
                  "ms", "MS", "el percentil 95 del login debe ser menor a ",
                  "el sistema esta disponible"}

MatchTexts == CanonicalTexts \cup Seqs(MatchAlphabet, 0, MaxTextLen)

InitMatch ==
    /\ pc = "call 0"
    /\ stepText \in MatchTexts
    /\ registry = STEP_DEFINITIONS
    /\ matchResult = None
    /\ prevResult = None
    /\ IdleParse /\ IdleGen /\ IdleRun

\* One call of matchStep(stepText); the patterns carry no lastIndex state
\* (no flag g or y), so the call leaves the registry as it is.
MatchStep ==
    /\ pc \in {"call 0", "call 1", "call 2"}
    /\ matchResult' = matchStep(registry, stepText)
    /\ prevResult' = matchResult
    /\ pc' = IF pc = "call 0" THEN "call 1" ELSE "call 2"
    /\ UNCHANGED <<stepText, registry, parseVars, genVars, runVars>>

NextMatch == MatchStep

SpecMatch == InitMatch /\ [][NextMatch]_vars

-----------------------------------------------------------------------------
(* Specification of the generator: generateSingleScript on one scenario *)

\* Step texts that match no pattern of the registry.
UnmatchedTexts == {<<"paso sin definicion">>, <<"el usuario busca ", "x">>}

GenStepTexts == CanonicalTexts \cup UnmatchedTexts

KeywordOf(text) ==
    IF text \in UnmatchedTexts THEN <<"Cuando">>
    ELSE IF Len(text) = 1 THEN <<"Dado">> ELSE <<"Entonces">>

GenSteps == {[keyword |-> KeywordOf(t), text |-> t] : t \in GenStepTexts}

\* Values of the vus, duration and iterations columns; None: no such column.
VusValues == {None, Some(<<>>), Some(<<"0">>), Some(<<"1">>), Some(<<"2">>),
              Some(<<"2", "0">>), Some(<<"1", "5">>), Some(<<"-", "5">>),
              Some(<<"x">>), Some(<<"1", "x">>)}

DurationDigits == {"0", "1", "2", "3", "9"}

DurationValues ==
    {None, Some(<<>>), Some(<<"s">>), Some(<<"1", "0", " ", "s">>)}
    \cup {Some(d \o u) : d \in Seqs(DurationDigits, 1, MaxDigits),
                         u \in {<<>>, <<"s">>, <<"m">>, <<"h">>, <<"M">>, <<"x">>}}

IterationValues == {None, Some(<<"5">>), Some(<<"0">>), Some(<<"x">>)}

Column(key, opt) == IF opt.some THEN <<[key |-> <<key>>, val |-> opt.v]>> ELSE <<>>

ResolvedOf(params, steps) ==
    [name |-> <<"T", " ", "[", "Load", " ", "EMDASH", " ", "Row", " ", "1", "]">>,
     tags |-> <<>>, type |-> "scenario_outline", examplesName |-> Some(<<"Load">>),
     parameters |-> params, steps |-> steps]

ProfileScenarios ==
    {ResolvedOf(Column("vus", v) \o Column("duration", d) \o Column("iterations", i),
                <<[keyword |-> <<"Dado">>, text |-> <<"el sistema esta disponible">>]>>) :
        v \in VusValues, d \in DurationValues, i \in IterationValues}

StepScenarios ==
    {ResolvedOf(<<>>, steps) : steps \in Seqs(GenSteps, 0, MaxSteps)}

GenFeature == [name |-> <<"F">>, tags |-> <<>>, file |-> <<"f.feature">>,
               background |-> None]

InitGen ==
    /\ pc = "generate"
    /\ genInput \in {Some([feature |-> GenFeature, scenario |-> sc]) :
                        sc \in ProfileScenarios \cup StepScenarios}
    /\ script = None
    /\ IdleParse /\ IdleMatch /\ IdleRun

GenerateSingleScript ==
    /\ pc = "generate"
    /\ \E now \in Instants :
          script' = Some(generateSingleScript(genInput.v.feature, genInput.v.scenario, now))
    /\ pc' = "generated"
    /\ UNCHANGED <<genInput, parseVars, matchVars, runVars>>

NextGen == GenerateSingleScript

SpecGen == InitGen /\ [][NextGen]_vars

-----------------------------------------------------------------------------
(* Specification of the runner: one run of bdd/runner.js from its main block *)

RunStep(text) == [keyword |-> <<"Dado", " ">>, text |-> text]

PlainNamed(name) ==
    [type |-> "scenario", name |-> name, tags |-> <<>>,
     steps |-> <<RunStep(<<"el sistema esta disponible">>)>>, examples |-> <<>>]

LoadTable ==
    [name |-> <<"Load">>, tags |-> <<>>,
     tableHeader |-> Some(<< <<"vus">>, <<"duration">> >>),
     tableBody |-> << << <<"2">>, <<"1", "m">> >> >>]

\* The feature files of the model: What the Gherkin parser returns for each;
\* None for a file it rejects.
FeatureContents == {
    Some(FeatureOf(<<PlainNamed(<<"a">>)>>)),
    Some(FeatureOf(<<PlainNamed(<<"a", " ", "b">>), PlainNamed(<<"a", "-", "b">>)>>)),
    Some(FeatureOf(<<OutlineChild(<<RunStep(<<"el usuario esta autenticado">>)>>,
                                  <<LoadTable>>)>>)),
    Some(FeatureOf(<<BackgroundChild>>)),
    None}

Absent == [absent |-> TRUE]

FileStems == <<"a", "b", "c", "d">>

Entry(stem, content) == [name |-> <<stem, ".feature">>, content |-> content]

\* The directories: each of the first MaxFiles stems is absent or names one
\* feature file; a file that is no feature file lies beside them.
Directories ==
    {{Entry(FileStems[i], d[i]) : i \in {j \in 1..MaxFiles : d[j] # Absent}}
        \cup {[name |-> <<"n", ".txt">>, content |-> None]} :
        d \in [1..MaxFiles -> FeatureContents \cup {Absent}]}

Targets ==
    {[kind |-> "missing"]}
    \cup {[kind |-> "file", entry |-> Entry("a", c)] : c \in FeatureContents}
    \cup {[kind |-> "dir", entries |-> d] : d \in Directories}

InitRun ==
    /\ pc = "run"
    /\ phase = "Init"
    /\ trace = <<"Init">>
    /\ options \in [parseOnly : BOOLEAN, generateOnly : BOOLEAN, envVars : {<<>>}]
    /\ target \in Targets
    /\ outputDir \in [exists : BOOLEAN, writable : BOOLEAN, files : {<<>>}, ops : {<<>>}]
    /\ pending = <<>> /\ features = <<>> /\ allGenerated = <<>> /\ inFlight = {}
    /\ engineLog = <<>> /\ results = <<>> /\ allPassed = TRUE /\ exitCode = None
    /\ IdleParse /\ IdleMatch /\ IdleGen

NextRun ==
    \/ StartParsing
    \/ ParseNext
    \/ FinishParsing
    \/ GenerateFeature
    \/ FinishGenerating
    \/ EngineStart
    \/ EngineExit
    \/ Summarize
    \/ Exit

SpecRun == InitRun /\ [][NextRun]_vars

\* execSync returns or throws within its timeout (10 min) and the statements
\* of the execution loop are synchronous: an engine run that can start
\* starts, one that is in flight ends, and a finished loop is left.
FairSpecRun ==
    SpecRun /\ WF_vars(EngineStart) /\ WF_vars(EngineExit) /\ WF_vars(Summarize)

-----------------------------------------------------------------------------
(* Specification of the pipeline: one feature parsed, then generated twice
   into the same output directory *)

\* The rows of the Examples table "Load Test": vus, duration, searchTerm and
\* threshold.
PipeRows ==
    {<< v, d, t, th >> :
        v \in {<<"1">>, <<"2">>}, d \in {<<"1", "0", "s">>, <<"1", "m">>},
        t \in {<<"x">>, <<"y">>}, th \in {<<"5", "0", "0">>, <<"2", "0", "0">>}}

SearchStep ==
    [keyword |-> <<"Cuando", " ">>,
     text    |-> <<"el usuario busca ", "\"", "<", "searchTerm", ">", "\"">>]

\* The steps of the template: the search alone, the search after a login,
\* the search with the assertion on its 95th percentile.
PipeSteps ==
    {<<SearchStep>>,
     <<RunStep(<<"el usuario esta autenticado">>), SearchStep>>,
     <<SearchStep,
       [keyword |-> <<"Entonces", " ">>,
        text    |-> <<"el percentil 95 de busqueda debe ser menor a ",
                      "<", "threshold", ">", "ms">>]>>}

PipeFeatures ==
    {FeatureOf(<<OutlineChild(steps,
        <<[name |-> <<"Load", " ", "Test">>, tags |-> <<>>,
           tableHeader |-> Some(<< <<"vus">>, <<"duration">>, <<"searchTerm">>,
                                   <<"threshold">> >>),
           tableBody |-> <<r1, r2>>]>>)>>) :
        steps \in PipeSteps, r1 \in PipeRows, r2 \in PipeRows}

InitPipe ==
    /\ pc = "parse"
    /\ ast \in {Some(f) : f \in PipeFeatures}
    /\ parsed = None
    /\ phase = "Idle" /\ options = None /\ target = None /\ pending = <<>>
    /\ features = <<>> /\ allGenerated = <<>> /\ inFlight = {}
    /\ engineLog = <<>> /\ results = <<>> /\ allPassed = TRUE /\ exitCode = None
    /\ trace = <<>>
    /\ outputDir \in [exists : BOOLEAN, writable : {TRUE}, files : {<<>>}, ops : {<<>>}]
    /\ IdleMatch /\ IdleGen

\* generateK6Scripts on the parsed feature; allGenerated collects what the
\* calls return, in call order.
GenerateScripts ==
    /\ pc \in {"parsed", "written"}
    /\ \E now \in ClockAfter(allGenerated) :
          \E g \in {generateK6Scripts(parsed.v, outputDir, now)} :
             /\ outputDir' = g.dir
             /\ allGenerated' = allGenerated \o g.generated
    /\ pc' = IF pc = "parsed" THEN "written" ELSE "rewritten"
    /\ UNCHANGED <<parseVars, matchVars, genVars, phase, options, target, pending,
                   features, inFlight, engineLog, results, allPassed, exitCode, trace>>

NextPipe ==
    \/ ParseFeatureFile
    \/ GenerateScripts

SpecPipe == InitPipe /\ [][NextPipe]_vars

-----------------------------------------------------------------------------
(* Specification of the execution phase: the runner from "Fase 3" on, with
   the command line it was given and the scripts it has generated *)

EnvFlag == <<"--env">>
TargetArg == <<"features/">>

\* The --env collection: every argument that follows an `--env`.
CollectEnv(args) ==
    SelectSeq([i \in 1..Len(args) |->
                  IF args[i] = EnvFlag /\ i + 1 <= Len(args) /\ args[i + 1] # <<>>
                  THEN Some(args[i + 1]) ELSE None],
              LAMBDA o : o.some)

EnvVarsOf(args) == [i \in 1..Len(CollectEnv(args)) |-> CollectEnv(args)[i].v]

\* The command lines of the model: no override, an override of a default
\* key, a new key beside an override, a key overridden twice, a value with
\* a blank in it, and an `--env` that nothing follows.
ExecArgs == {
    <<TargetArg>>,
    <<TargetArg, EnvFlag, <<"BASE_URL", "=", "u">>>>,
    <<EnvFlag, <<"X", "=", "1">>, TargetArg, EnvFlag, <<"PASSWORD", "=", "p">>>>,
    <<TargetArg, EnvFlag, <<"X", "=", "1">>, EnvFlag, <<"X", "=", "2">>>>,
    <<TargetArg, EnvFlag, <<"PASSWORD", "=", "my", " ", "pass">>>>,
    <<TargetArg, EnvFlag>>}

UnknownNamed(name) ==
    [type |-> "scenario", name |-> name, tags |-> <<>>,
     steps |-> <<RunStep(<<"el sistema esta disponible">>),
                 RunStep(<<"un paso sin definicion">>)>>,
     examples |-> <<>>]

ExecFeatures == {
    FeatureOf(<<PlainNamed(<<"a">>)>>),
    FeatureOf(<<PlainNamed(<<"a">>), UnknownNamed(<<"u">>)>>),
    FeatureOf(<<UnknownNamed(<<"u">>), PlainNamed(<<"a">>)>>)}

InitExec ==
    /\ pc = "run"
    /\ phase = "Executing"
    /\ trace = <<"Init", "Parsing", "Generating", "Executing">>
    /\ \E a \in ExecArgs :
          options = [parseOnly |-> FALSE, generateOnly |-> FALSE,
                     envVars |-> EnvVarsOf(a)]
    /\ \E f \in ExecFeatures :
          \E g \in {generateK6Scripts(parseFeatureFile(f),
                                      [exists |-> TRUE, writable |-> TRUE,
                                       files |-> <<>>, ops |-> <<>>], "t1")} :
             /\ target = [kind |-> "file", entry |-> Entry("a", Some(f))]
             /\ features = <<parseFeatureFile(f)>>
             /\ outputDir = g.dir
             /\ allGenerated = g.generated
    /\ pending = <<>> /\ inFlight = {}
    /\ engineLog = <<>> /\ results = <<>> /\ allPassed = TRUE /\ exitCode = None
    /\ IdleParse /\ IdleMatch /\ IdleGen

NextExec ==
    \/ EngineStart
    \/ EngineExit
    \/ Summarize
    \/ Exit

SpecExec == InitExec /\ [][NextExec]_vars

-----------------------------------------------------------------------------
(* Specification of the step loop: generateSingleScript on scenarios whose
   step texts hold quotes and backslashes and occur more than once *)

LabelTexts == {
    <<"el sistema esta disponible">>,
    <<"el usuario busca ", "\"", "a", "\\", "b", "\"">>,
    <<"paso sin definicion">>,
    <<"paso ", "'", "a", "'">>,
    <<"paso ", "a", "\\">>,
    <<"paso ", "\\", "'", "a">>}

LabelSteps == {[keyword |-> kw, text |-> t] : kw \in {<<"Dado">>, <<"Y">>}, t \in LabelTexts}

LabelScenarios == {ResolvedOf(<<>>, steps) : steps \in Seqs(LabelSteps, 0, MaxSteps)}

InitLabel ==
    /\ pc = "generate"
    /\ genInput \in {Some([feature |-> GenFeature, scenario |-> sc]) : sc \in LabelScenarios}
    /\ script = None
    /\ IdleParse /\ IdleMatch /\ IdleRun

NextLabel == GenerateSingleScript

SpecLabel == InitLabel /\ [][NextLabel]_vars

-----------------------------------------------------------------------------
(* Specification of the slug: generateSingleScript on scenarios without
   steps whose names are drawn over capitals, small letters, digits,
   separators, blanks and punctuation *)

SlugAlphabet == {"A", "a", "1", "-", " ", "!"}

SlugScenarios ==
    {[ResolvedOf(<<>>, <<>>) EXCEPT !.name = n] : n \in Seqs(SlugAlphabet, 0, MaxNameLen)}

InitSlug ==
    /\ pc = "generate"
    /\ genInput \in {Some([feature |-> GenFeature, scenario |-> sc]) : sc \in SlugScenarios}
    /\ script = None
    /\ IdleParse /\ IdleMatch /\ IdleRun

NextSlug == GenerateSingleScript

SpecSlug == InitSlug /\ [][NextSlug]_vars

-----------------------------------------------------------------------------
(* Specification of the stages: generateSingleScript on scenarios with
   every duration of 0..MaxSeconds seconds *)

StageVus == {<<"1">>, <<"2">>, <<"2", "0">>}

StageScenarios ==
    {ResolvedOf(Column("vus", Some(v))
                \o Column("duration", Some(NumberToString(t) \o <<"s">>)),
                <<[keyword |-> <<"Dado">>, text |-> <<"el sistema esta disponible">>]>>) :
        v \in StageVus, t \in 0..MaxSeconds}

InitStages ==
    /\ pc = "generate"
    /\ genInput \in {Some([feature |-> GenFeature, scenario |-> sc]) : sc \in StageScenarios}
    /\ script = None
    /\ IdleParse /\ IdleMatch /\ IdleRun

NextStages == GenerateSingleScript

SpecStages == InitStages /\ [][NextStages]_vars

-----------------------------------------------------------------------------
(* Specification of the pipeline on features with a Background: the same
   scenarios behind no Background, one Background or two *)

BackgroundOf(texts) ==
    [type |-> "background", name |-> <<>>,
     steps |-> [i \in 1..Len(texts) |-> RunStep(texts[i])]]

\* The Background children of a feature: none, steps with and without setup
\* code, imports, metrics and thresholds, an unknown step, two Backgrounds.
Backgrounds == {
    <<>>,
    <<BackgroundOf(<< <<"el usuario esta autenticado">> >>)>>,
    <<BackgroundOf(<< <<"existe un pool de skus con stock">>,
                      <<"el usuario realiza checkout con ", "2", " productos">>,
                      <<"la tasa de fallas debe ser menor a ", "2", "0", "%">> >>)>>,
    <<BackgroundOf(<< <<"un paso sin definicion">> >>)>>,
    <<BackgroundOf(<< <<"el usuario esta autenticado">> >>),
      BackgroundOf(<< <<"el sistema esta disponible">> >>)>>}

BackgroundScenarios == {
    <<PlainNamed(<<"a">>)>>,
    <<PlainNamed(<<"a">>), UnknownNamed(<<"u">>)>>,
    <<OutlineChild(<<RunStep(<<"el usuario esta autenticado">>)>>, <<LoadTable>>)>>}

\* The children in the order of the file: the Backgrounds before the
\* scenarios, or the first scenario before them.
BackgroundFeatures ==
    {FeatureOf(b \o sc) : b \in Backgrounds, sc \in BackgroundScenarios}
    \cup {FeatureOf(<<Head(sc)>> \o b \o Tail(sc)) : b \in Backgrounds, sc \in BackgroundScenarios}

InitBackground ==
    /\ pc = "parse"
    /\ ast \in {Some(f) : f \in BackgroundFeatures}
    /\ parsed = None
    /\ phase = "Idle" /\ options = None /\ target = None /\ pending = <<>>
    /\ features = <<>> /\ allGenerated = <<>> /\ inFlight = {}
    /\ engineLog = <<>> /\ results = <<>> /\ allPassed = TRUE /\ exitCode = None
    /\ trace = <<>>
    /\ outputDir \in [exists : BOOLEAN, writable : {TRUE}, files : {<<>>}, ops : {<<>>}]
    /\ IdleMatch /\ IdleGen

NextBackground ==
    \/ ParseFeatureFile
    \/ GenerateScripts

SpecBackground == InitBackground /\ [][NextBackground]_vars

-----------------------------------------------------------------------------
(* Specification of the imports: generateSingleScript on scenarios of up to
   MaxSteps steps, each the canonical text of a definition or a text that
   matches none, with no load profile *)

InitImports ==
    /\ pc = "generate"
    /\ genInput \in {Some([feature |-> GenFeature, scenario |-> sc]) : sc \in StepScenarios}
    /\ script = None
    /\ IdleParse /\ IdleMatch /\ IdleRun

NextImports == GenerateSingleScript

SpecImports == InitImports /\ [][NextImports]_vars

-----------------------------------------------------------------------------
(* Claims about the parser *)

\* The scenario outline of the parsed feature (every input has exactly one)
\* and the resolved scenarios derived from it, in result order.
Template ==
    LET c == ast.v.children
    IN c[CHOOSE i \in 1..Len(c) : c[i].type = "scenario" /\ Len(c[i].examples) > 0]

Derived == SelectSeq(parsed.v.scenarios, LAMBDA sc : sc.type = "scenario_outline")

\* r_t: the number of data rows of the t-th Examples table.
RowCount(t) == Len(Template.examples[t].tableBody)

RECURSIVE RowsBefore(_)
RowsBefore(t) == IF t <= 1 THEN 0 ELSE RowsBefore(t - 1) + RowCount(t - 1)

CellOf(row, i) == IF i <= Len(row) THEN row[i] ELSE <<>>

\* The parameters of one resolved scenario map the header names to the cells
\* of the row; of several columns with one name the last is the one kept.
ParamsMatchRow(params, header, row) ==
    /\ ObjKeys(params) = {header[i] : i \in 1..Len(header)}
    /\ Len(params) = Cardinality(ObjKeys(params))
    /\ \A i \in 1..Len(header) :
          (\A j \in (i + 1)..Len(header) : header[j] # header[i])
             => ObjGet(params, header[i]) = CellOf(row, i)

LiteralAt(text, name) ==
    {i \in 1..Len(text) :
        /\ i + Len(name) + 1 <= Len(text)
        /\ text[i] = "<"
        /\ \A j \in 1..Len(name) : text[i + j] = name[j]
        /\ text[i + Len(name) + 1] = ">"}

PlaceholderNames == {<<"a">>, <<"b">>}

\* C2: after resolution no step text contains '<name>' for a column name of
\* the scenario's parameters, and every '<x>' whose x is not a column of the
\* table is still in the text.
C2_FullSubstitution ==
    pc = "parsed" =>
        \A d \in 1..Len(Derived) : \A s \in 1..Len(Derived[d].steps) :
            LET keys     == ObjKeys(Derived[d].parameters)
                original == Template.steps[s].text
                resolved == Derived[d].steps[s].text
            IN /\ \A name \in keys : LiteralAt(resolved, name) = {}
               /\ \A x \in PlaceholderNames \ keys :
                     Cardinality(LiteralAt(resolved, x)) >= Cardinality(LiteralAt(original, x))

-----------------------------------------------------------------------------
(* Claims about the matcher *)

\* The definitions whose pattern matches the text.
Matching(text) ==
    {i \in 1..Len(STEP_DEFINITIONS) : RegExpMatch(text, STEP_DEFINITIONS[i].pattern).some}

\* C3: matchStep returns the first definition, in declaration order, whose
\* pattern matches, with the groups of that match; it returns null when no
\* pattern matches; it leaves the registry unchanged and a repeated call on
\* the same text returns the same value.
C3_FirstMatchOrNull ==
    pc \in {"call 1", "call 2"} =>
        /\ registry = STEP_DEFINITIONS
        /\ (Matching(stepText) = {} => matchResult = None)
        /\ (Matching(stepText) # {} =>
              /\ matchResult.some
              /\ matchResult.v.definition \in Matching(stepText)
              /\ \A i \in Matching(stepText) : matchResult.v.definition <= i
              /\ matchResult.v.match[1] = stepText
              /\ Some(matchResult.v.match) =
                    RegExpMatch(stepText, STEP_DEFINITIONS[matchResult.v.definition].pattern))
        /\ (pc = "call 2" => prevResult = matchResult)

\* A second call that returns the search definition with its captured term.
C3_Witness ==
    /\ pc = "call 2"
    /\ stepText = <<"EL USUARIO BUSCA ", "\"", "x", "\"">>
    /\ matchResult.some
    /\ matchResult.v.definition = 7
    /\ matchResult.v.match = <<stepText, <<"x">> >>

-----------------------------------------------------------------------------
(* Claims about the generator *)

GenScenario == genInput.v.scenario
GenParams   == GenScenario.parameters

IsUnmatched(step) == Matching(step.text) = {}

\* The scenario without its unrecognized steps.
WithoutUnmatched(sc) ==
    [sc EXCEPT !.steps = SelectSeq(sc.steps, LAMBDA st : ~IsUnmatched(st))]

\* C4: generation does not fail on a step that matches no pattern: the step
\* becomes a comment that names its keyword and text, it adds no import, no
\* metric, no threshold rule and no setup code to the script, and every other
\* step is still processed (one fragment per step, in step order).
C4_UnmatchedStepIsComment ==
    pc = "generated" =>
        LET steps  == GenScenario.steps
            groups == script.v.default.groups
            clean  == generateSingleScript(genInput.v.feature,
                                           WithoutUnmatched(GenScenario),
                                           script.v.header.generatedAt)
        IN /\ Len(groups) = Len(steps)
           /\ \A i \in 1..Len(steps) :
                IF IsUnmatched(steps[i])
                THEN groups[i].code =
                        [template |-> "unrecognized",
                         groups   |-> <<steps[i].keyword, steps[i].text>>]
                ELSE \E d \in Matching(steps[i].text) :
                        groups[i].code.template = STEP_DEFINITIONS[d].code
           /\ script.v.importStatements = clean.importStatements
           /\ script.v.metricsDeclarations = clean.metricsDeclarations
           /\ script.v.options = clean.options
           /\ script.v.setup = clean.setup

\* An unrecognized step followed by a step that brings setup code and imports.
C4_Witness ==
    /\ pc = "generated"
    /\ Len(GenScenario.steps) = 2
    /\ GenScenario.steps[1].text = <<"paso sin definicion">>
    /\ GenScenario.steps[2].text = <<"el usuario esta autenticado">>
    /\ script.v.default.groups[1].code.template = "unrecognized"
    /\ script.v.default.groups[2].code.template = "authenticated"
    /\ script.v.setup = Some("setupLogin")

\* The load the scenario asks for: vus (default 1), the duration in seconds
\* (default "30s") and the iterations (default 1).
RequestedVus        == ParseIntOr1(GenParams, <<"vus">>)
RequestedSeconds    == parseDurationToSeconds(DurationParam(GenParams))
RequestedIterations == ParseIntOr1(GenParams, <<"iterations">>)

HasParam(key, val) == ObjHas(GenParams, <<key>>) /\ ObjGet(GenParams, <<key>>) = val

\* C5: the profile is fixed, with vus virtual users and the requested
\* iterations and without stages, exactly when vus <= 1 and the duration is
\* at most 30 seconds; otherwise it is ramping.  Durations convert by their
\* suffix s, m or h, an unparseable duration is 60 seconds, a missing one 30;
\* vus=1 with duration "10s" gives a fixed profile of 1 iteration.
C5_FixedIffSmoke ==
    pc = "generated" =>
        LET o == script.v.options
        IN /\ (~o.scenarios.some) <=> (RequestedVus <= 1 /\ RequestedSeconds <= 30)
           /\ ~o.scenarios.some =>
                 /\ o.vus = Some(RequestedVus)
                 /\ o.iterations = Some(RequestedIterations)
           /\ o.scenarios.some =>
                 /\ o.scenarios.v.executor = "ramping-vus"
                 /\ o.vus = None /\ o.iterations = None
           /\ HasParam("duration", <<"1", "0", "s">>) => RequestedSeconds = 10
           /\ HasParam("duration", <<"2", "m">>) => RequestedSeconds = 120
           /\ HasParam("duration", <<"1", "h">>) => RequestedSeconds = 3600
           /\ HasParam("duration", <<"1", "0", "x">>) => RequestedSeconds = 60
           /\ HasParam("duration", <<"1", "0">>) => RequestedSeconds = 60
           /\ ~ObjHas(GenParams, <<"duration">>) => RequestedSeconds = 30
           /\ ~ObjHas(GenParams, <<"vus">>) => RequestedVus = 1
           /\ ~ObjHas(GenParams, <<"iterations">>) => RequestedIterations = 1
           /\ HasParam("vus", <<"2", "0">>) => RequestedVus = 20
           /\ HasParam("iterations", <<"5">>) => RequestedIterations = 5
           /\ (HasParam("vus", <<"1">>) /\ HasParam("duration", <<"1", "0", "s">>)
               /\ ~ObjHas(GenParams, <<"iterations">>)) =>
                 o = [scenarios |-> None, vus |-> Some(1), iterations |-> Some(1),
                      thresholds |-> None]

\* vus=1, duration "10s", no iterations column: the fixed profile.
C5_Witness ==
    /\ pc = "generated"
    /\ HasParam("vus", <<"1">>)
    /\ HasParam("duration", <<"1", "0", "s">>)
    /\ ~ObjHas(GenParams, <<"iterations">>)
    /\ ~script.v.options.scenarios.some
    /\ script.v.options.iterations = Some(1)

Seconds(n) == NumberToString(n) \o <<"s">>

\* C6: a ramping profile has exactly three stages, ramp-up, steady and
\* ramp-down, of max(10, floor(0.20*T)), max(10, T - rampUp - floor(0.15*T))
\* and max(5, floor(0.15*T)) seconds, with targets vus, vus, 0, and starts at
\* max(1, floor(0.1*vus)) virtual users; vus=20 over 120 s gives 24 s, 78 s
\* and 18 s, targets 20, 20, 0 and 2 starting virtual users.
C6_ThreeStages ==
    (pc = "generated" /\ script.v.options.scenarios.some) =>
        LET p      == script.v.options.scenarios.v
            T      == RequestedSeconds
            vus    == RequestedVus
            rampUp == Max(10, (20 * T) \div 100)
        IN /\ Len(p.stages) = 3
           /\ p.stages[1] = [duration |-> Seconds(rampUp), target |-> vus]
           /\ p.stages[2] = [duration |-> Seconds(Max(10, T - rampUp - ((15 * T) \div 100))),
                             target   |-> vus]
           /\ p.stages[3] = [duration |-> Seconds(Max(5, (15 * T) \div 100)), target |-> 0]
           /\ p.startVUs = Max(1, vus \div 10)
           /\ (vus = 20 /\ T = 120) =>
                 /\ p.stages = <<[duration |-> <<"2", "4", "s">>, target |-> 20],
                                 [duration |-> <<"7", "8", "s">>, target |-> 20],
                                 [duration |-> <<"1", "8", "s">>, target |-> 0]>>
                 /\ p.startVUs = 2

\* vus=20 with duration "2m".
C6_Witness ==
    /\ pc = "generated"
    /\ HasParam("vus", <<"2", "0">>)
    /\ HasParam("duration", <<"2", "m">>)
    /\ script.v.options.scenarios.some
    /\ script.v.options.scenarios.v.startVUs = 2
    /\ script.v.options.scenarios.v.stages[2].duration = <<"7", "8", "s">>

-----------------------------------------------------------------------------
(* Claims about the runner *)

GenerationOver == phase \in {"GeneratedOnly", "Executing", "Summarizing", "Done"}

RECURSIVE ScenarioCount(_)
ScenarioCount(fs) ==
    IF fs = <<>> THEN 0 ELSE Len(Head(fs).scenarios) + ScenarioCount(Tail(fs))

\* C7: once generation is over the output directory holds as many script
\* files as the parsed features have resolved scenarios, no two generated
\* scripts share a path, and the file at the path of each generated script
\* holds the script of that scenario.
C7_OneFilePerScenario ==
    GenerationOver =>
        /\ Len(allGenerated) = ScenarioCount(features)
        /\ Len(outputDir.files) = Len(allGenerated)
        /\ \A i, j \in 1..Len(allGenerated) :
              i < j => allGenerated[i].path # allGenerated[j].path
        /\ \A k \in 1..Len(allGenerated) :
              /\ ObjHas(outputDir.files, allGenerated[k].path)
              /\ ObjGet(outputDir.files, allGenerated[k].path) = allGenerated[k].code

\* The phases of a run with these options that no error interrupts.
PhasePath(opts) ==
    IF opts.parseOnly THEN <<"Init", "Parsing", "PrintedJSON">>
    ELSE IF opts.generateOnly THEN <<"Init", "Parsing", "Generating", "GeneratedOnly">>
    ELSE <<"Init", "Parsing", "Generating", "Executing", "Summarizing", "Done">>

IsPrefix(p, q) == Len(p) <= Len(q) /\ \A i \in 1..Len(p) : p[i] = q[i]

\* The phases entered so far, without the fatal error that may end them.
PhasesEntered ==
    IF trace[Len(trace)] = "Fatal" THEN SubSeq(trace, 1, Len(trace) - 1) ELSE trace

\* C8: the phases a run has entered are, in order and each once, the first
\* phases of Init, Parsing, PrintedJSON with parseOnly, of Init, Parsing,
\* Generating, GeneratedOnly with generateOnly alone, and of Init, Parsing,
\* Generating, Executing, Summarizing, Done otherwise (only a fatal error may
\* cut the sequence short); PrintedJSON and GeneratedOnly exit with code 0;
\* with parseOnly nothing is written to the output directory and the engine
\* is never invoked, with generateOnly the engine is never invoked.
C8_PhaseOrder ==
    /\ phase = trace[Len(trace)]
    /\ IsPrefix(PhasesEntered, PhasePath(options))
    /\ phase \in {"PrintedJSON", "GeneratedOnly"} => exitCode = Some(0)
    /\ options.parseOnly =>
          /\ outputDir.ops = <<>> /\ outputDir.files = <<>>
          /\ allGenerated = <<>> /\ engineLog = <<>> /\ inFlight = {}
    /\ options.generateOnly => engineLog = <<>> /\ inFlight = {} /\ results = <<>>

\* A run with both flags set that has parsed two feature files and printed
\* them: parseOnly wins, and the output directory is untouched.
C8_Witness ==
    /\ phase = "PrintedJSON"
    /\ options.parseOnly /\ options.generateOnly
    /\ Len(features) = 2
    /\ trace = <<"Init", "Parsing", "PrintedJSON">>
    /\ exitCode = Some(0)
    /\ ~outputDir.exists /\ outputDir.ops = <<>>

\* What the execution loop has done after n results: the engine was invoked
\* once per generated script, on its path, in generation order, and a result
\* was recorded for each, FAIL exactly for a non-zero exit or a timeout.
LoopDone(n) ==
    /\ Len(results) = n
    /\ Len(engineLog) = n + Cardinality(inFlight)
    /\ \A k \in 1..Len(engineLog) :
          engineLog[k].script = k /\ engineLog[k].path = allGenerated[k].path
    /\ \A k \in 1..n :
          /\ results[k].name = allGenerated[k].name
          /\ results[k].status = (IF results[k].output = "exit 0" THEN "PASS" ELSE "FAIL")

ExecutionSafe ==
    /\ phase = "Executing" => Len(results) <= Len(allGenerated) /\ LoopDone(Len(results))
    /\ phase \in {"Summarizing", "Done"} =>
          LoopDone(Len(allGenerated)) /\ inFlight = {}
    /\ phase = "Fatal" => \A i \in 1..Len(trace) : trace[i] # "Executing"

C10_ExitCodeIffAllPassed ==
    phase = "Done" =>
        /\ ~options.parseOnly /\ ~options.generateOnly
        /\ exitCode \in {Some(0), Some(1)}
        /\ exitCode = Some(0) <=> \A k \in 1..Len(results) : results[k].status = "PASS"
        /\ exitCode = Some(1) <=> \E k \in 1..Len(results) : results[k].status = "FAIL"

\* The first of two scenarios failed, the last passed: the exit code is 1.
C10_Witness ==
    /\ phase = "Done"
    /\ Len(results) = 2
    /\ results[1].status = "FAIL"
    /\ results[2].status = "PASS"
    /\ exitCode = Some(1)

\* The feature files the run has to parse, whatever their order.
FilesToParse ==
    IF target.kind = "file" THEN {target.entry}
    ELSE IF target.kind = "dir" THEN {e \in target.entries : EndsWithFeature(e.name)}
    ELSE {}

\* C11: a missing target, a file that cannot be parsed or a run whose parsed
\* features hold no resolved scenario ends the run at once with exit code 1:
\* such a run never enters a phase after the failure, invokes no engine and
\* never exits with code 0.
C11_FatalWithoutScripts ==
    /\ phase = "Fatal" => exitCode = Some(1)
    /\ (target.kind = "missing" /\ phase # "Init") => phase = "Fatal"
    /\ (\E e \in FilesToParse : ~e.content.some) =>
          phase \in {"Init", "Parsing", "Fatal"}
    /\ (~options.parseOnly /\ FilesToParse # {}
        /\ \A e \in FilesToParse :
              e.content.some /\ parseFeatureFile(e.content.v).scenarios = <<>>) =>
          /\ phase \in {"Init", "Parsing", "Generating", "Fatal"}
          /\ engineLog = <<>>
          /\ exitCode # Some(0)

\* C12: no two resolved scenarios of a parsed feature have the same name,
\* also when the Examples tables of a template share a name or are unnamed.
C12_UniqueScenarioNames ==
    pc = "parsed" =>
        \A i, j \in 1..Len(parsed.v.scenarios) :
            i # j => parsed.v.scenarios[i].name # parsed.v.scenarios[j].name

-----------------------------------------------------------------------------
(* Claims about the pipeline *)

\* The scripts the first and the second generation returned.
FirstRun  == SubSeq(allGenerated, 1, Len(parsed.v.scenarios))
SecondRun == SubSeq(allGenerated, Len(parsed.v.scenarios) + 1, Len(allGenerated))

\* A script text without its generation timestamp.
Untimed(code) == [code EXCEPT !.header.generatedAt = "-"]

\* C13: a second generation of the same feature into the same directory
\* returns, scenario by scenario, the same path and the same script text but
\* for the generation timestamp (so with the same imports, metric
\* declarations, threshold rules and code fragments in the same order), and
\* leaves in the directory the same files, each holding exactly the script of
\* the second generation.
C13_GenerationIdempotent ==
    pc = "rewritten" =>
        /\ Len(FirstRun) = Len(SecondRun)
        /\ \A k \in 1..Len(FirstRun) :
              /\ SecondRun[k].name = FirstRun[k].name
              /\ SecondRun[k].path = FirstRun[k].path
              /\ Untimed(SecondRun[k].code) = Untimed(FirstRun[k].code)
              /\ ObjGet(outputDir.files, FirstRun[k].path) = SecondRun[k].code
        /\ ObjKeys(outputDir.files) = {FirstRun[k].path : k \in 1..Len(FirstRun)}
        /\ Len(outputDir.files) = Len(FirstRun)

\* Two generations at different instants: the texts differ in the timestamp
\* only and the files hold the second text.
C13_Witness ==
    /\ pc = "rewritten"
    /\ Len(FirstRun) = 2
    /\ FirstRun[1].code.header.generatedAt = "t1"
    /\ SecondRun[1].code.header.generatedAt = "t2"
    /\ FirstRun[1].code # SecondRun[1].code
    /\ ObjGet(outputDir.files, FirstRun[1].path) = SecondRun[1].code
    /\ FirstRun[1].code.setup = Some("setupLogin")

\* Does the sequence part occur in the sequence whole ?
Occurs(part, whole) ==
    \E i \in 0..(Len(whole) - Len(part)) : SubSeq(whole, i + 1, i + Len(part)) = part

\* The generated script of the k-th data row, with the search call on the
\* row's term and the declaration of the search metric.
SearchScriptOf(k) ==
    LET row  == Template.examples[1].tableBody[k]
        code == allGenerated[k].code
    IN /\ Len(code.default.groups) = 1
       /\ code.default.groups[1].code = [template |-> "searchProducts", groups |-> <<row[3]>>]
       /\ \E d \in 1..Len(code.metricsDeclarations) :
             code.metricsDeclarations[d].k6name = "product_search_duration"

\* C14: the template with the single step 'el usuario busca "<searchTerm>"'
\* and the table "Load Test" of two rows yields two scripts; each calls the
\* search with the term of its row, declares product_search_duration and
\* carries a threshold rule built from the threshold value of its row.
C14_SearchEndToEnd ==
    (pc = "written" /\ Template.steps = <<SearchStep>>) =>
        /\ Len(allGenerated) = 2
        /\ \A k \in 1..2 :
              /\ SearchScriptOf(k)
              /\ allGenerated[k].code.options.thresholds.some
              /\ \E i \in 1..Len(allGenerated[k].code.options.thresholds.v) :
                    \E j \in 1..Len(allGenerated[k].code.options.thresholds.v[i].val) :
                        Occurs(Template.examples[1].tableBody[k][4],
                               allGenerated[k].code.options.thresholds.v[i].val[j])

-----------------------------------------------------------------------------
(* Claims about the order of the pipeline *)

\* The place of a feature file among the files of its directory, by the
\* alphabetical order of the stems.
StemPlace(e) == CHOOSE i \in 1..Len(FileStems) : FileStems[i] = e.name[1]

FilesInNameOrder ==
    CHOOSE q \in [1..Cardinality(FilesToParse) -> FilesToParse] :
        \A i, j \in 1..Cardinality(FilesToParse) :
            i < j => StemPlace(q[i]) < StemPlace(q[j])

\* The resolved scenarios of a list of features, feature by feature.
RECURSIVE FlatScenarios(_)
FlatScenarios(fs) ==
    IF fs = <<>> THEN <<>> ELSE Head(fs).scenarios \o FlatScenarios(Tail(fs))

ParsingOver ==
    phase \in {"PrintedJSON", "Generating", "GeneratedOnly", "Executing",
               "Summarizing", "Done"}

\* C15: the feature files of a directory are parsed in the alphabetical
\* order of their names, and a directory without feature file is a fatal
\* error; the generated scripts are those of the scenarios of the features,
\* feature by feature and scenario by scenario; the engine runs and the
\* lines of the summary follow the same order; the files written are those
\* of these scenarios, so a directory determines the order and the file set.
C15_PipelineOrder ==
    /\ (target.kind = "dir" /\ FilesToParse = {} /\ phase # "Init") => phase = "Fatal"
    /\ (ParsingOver \/ (phase = "Fatal" /\ Len(trace) > 3)) =>
          /\ Len(features) = Cardinality(FilesToParse)
          /\ \A i \in 1..Len(features) :
                features[i] = parseFeatureFile(FilesInNameOrder[i].content.v)
    /\ GenerationOver =>
          /\ Len(allGenerated) = Len(FlatScenarios(features))
          /\ \A k \in 1..Len(allGenerated) :
                /\ allGenerated[k].name = FlatScenarios(features)[k].name
                /\ allGenerated[k].path = ScriptPath(FlatScenarios(features)[k].name)
          /\ ObjKeys(outputDir.files) =
                {ScriptPath(FlatScenarios(features)[k].name) :
                    k \in 1..Len(FlatScenarios(features))}
    /\ phase \in {"Summarizing", "Done"} =>
          /\ Len(engineLog) = Len(FlatScenarios(features))
          /\ Len(results) = Len(FlatScenarios(features))
          /\ \A k \in 1..Len(results) :
                /\ engineLog[k].path = ScriptPath(FlatScenarios(features)[k].name)
                /\ results[k].name = FlatScenarios(features)[k].name

\* A directory whose first file has two scenarios and whose second has one:
\* three results in that order.
C15_Witness ==
    /\ phase = "Done"
    /\ target.kind = "dir"
    /\ Len(features) = 2
    /\ Len(features[1].scenarios) = 2 /\ Len(features[2].scenarios) = 1
    /\ Len(results) = 3
    /\ results[1].name = <<"a", " ", "b">>
    /\ results[2].name = <<"a", "-", "b">>
    /\ results[3].name = <<"a">>

-----------------------------------------------------------------------------
(* Claims about the environment of the engine *)

\* What the shell makes of a command text: words are separated by blanks
\* outside double quotes, and the quotes are removed.
RECURSIVE ShellScan(_, _, _, _)
ShellScan(rest, word, open, quoted) ==
    IF rest = <<>> THEN (IF open THEN <<word>> ELSE <<>>)
    ELSE IF Head(rest) = "\"" THEN ShellScan(Tail(rest), word, TRUE, ~quoted)
    ELSE IF Head(rest) = " " /\ ~quoted
         THEN (IF open THEN <<word>> ELSE <<>>) \o ShellScan(Tail(rest), <<>>, FALSE, FALSE)
    ELSE ShellScan(Tail(rest), Append(word, Head(rest)), TRUE, quoted)

ShellWords(cmd) == ShellScan(cmd, <<>>, FALSE, FALSE)

\* The entries the engine is given with -e, in order.
RECURSIVE EnvFlags(_)
EnvFlags(words) ==
    IF words = <<>> THEN <<>>
    ELSE IF Head(words) = <<"-e">> /\ Len(words) >= 2
         THEN <<words[2]>> \o EnvFlags(SubSeq(words, 3, Len(words)))
    ELSE EnvFlags(Tail(words))

\* The words the engine is given that are no flag and no flag's value.
RECURSIVE Positionals(_)
Positionals(words) ==
    IF words = <<>> THEN <<>>
    ELSE IF Head(words) = <<"-e">> /\ Len(words) >= 2
         THEN Positionals(SubSeq(words, 3, Len(words)))
    ELSE <<Head(words)>> \o Positionals(Tail(words))

EqualsAt(e) == IF \E i \in 1..Len(e) : e[i] = "="
               THEN CHOOSE i \in 1..Len(e) : e[i] = "=" /\ \A j \in 1..(i - 1) : e[j] # "="
               ELSE Len(e) + 1
KeyOf(e) == SubSeq(e, 1, EqualsAt(e) - 1)
ValOf(e) == SubSeq(e, EqualsAt(e) + 1, Len(e))

\* The environment a list of KEY=VALUE entries makes: a later entry of a key
\* replaces an earlier one.
RECURSIVE EnvOf(_)
EnvOf(entries) ==
    IF entries = <<>> THEN <<>>
    ELSE ObjSet(EnvOf(SubSeq(entries, 1, Len(entries) - 1)),
                KeyOf(entries[Len(entries)]), ValOf(entries[Len(entries)]))

SameEnv(e1, e2) ==
    /\ ObjKeys(e1) = ObjKeys(e2)
    /\ \A key \in ObjKeys(e1) : ObjGet(e1, key) = ObjGet(e2, key)

\* C16: every engine invocation receives the defaults merged with the
\* caller's overrides, an override winning over a default of the same key;
\* the -e flags list every override after all defaults; the invocation runs
\* the script of its turn; every invocation of a run gets the same
\* environment.
C16_EnvironmentMerge ==
    \A k \in 1..Len(engineLog) :
        /\ EnvFlags(ShellWords(engineLog[k].cmd)) = DefaultEnvs \o options.envVars
        /\ SameEnv(EnvOf(EnvFlags(ShellWords(engineLog[k].cmd))),
                   EnvOf(DefaultEnvs \o options.envVars))
        /\ \A e \in {options.envVars[i] : i \in 1..Len(options.envVars)} :
              \E f \in {options.envVars[i] : i \in 1..Len(options.envVars)} :
                 /\ KeyOf(f) = KeyOf(e)
                 /\ ObjGet(EnvOf(EnvFlags(ShellWords(engineLog[k].cmd))), KeyOf(e)) = ValOf(f)
        /\ Positionals(ShellWords(engineLog[k].cmd))
              = << <<"k6">>, <<"run">>, engineLog[k].path >>
        /\ EnvFlags(ShellWords(engineLog[k].cmd))
              = EnvFlags(ShellWords(engineLog[1].cmd))

\* The same, for the runs whose overrides hold no blank.
C16_HoldsWithoutBlanks ==
    (\A i \in 1..Len(options.envVars) : \A j \in 1..Len(options.envVars[i]) :
         options.envVars[i][j] # " ")
    => C16_EnvironmentMerge

-----------------------------------------------------------------------------
(* Claims about the engine loop *)

\* C17: at most one engine is in flight; the engines are started in the
\* order of the generated scripts, each once, and the engine of a script
\* is started only when the results of all the scripts before it are in.
C17_SequentialEngines ==
    /\ Cardinality(inFlight) <= 1
    /\ \A k \in 1..Len(engineLog) : engineLog[k].script = k
    /\ Len(engineLog) = Len(results) + Cardinality(inFlight)
    /\ inFlight \subseteq {Len(results) + 1}

\* The second engine of a run is in flight after the first one timed out.
C17_Witness ==
    /\ inFlight = {2}
    /\ Len(results) = 1 /\ results[1].output = "timeout"

\* The steps of the generated script k that no definition matched.
UnrecognizedSteps(k) ==
    {allGenerated[k].code.default.groups[b].code.groups[2] :
        b \in {i \in 1..Len(allGenerated[k].code.default.groups) :
                  allGenerated[k].code.default.groups[i].code.template = "unrecognized"}}

\* C18: at the end of a run the summary reports every failed execution as
\* a failure of its scenario and mentions every step that generation did
\* not recognize.
C18_NothingSwallowed ==
    phase \in {"Summarizing", "Done"} =>
        /\ \A k \in 1..Len(results) :
              results[k].output # "exit 0" =>
                 FinalSummary(results).lines[k]
                    = <<"KO", " ">> \o allGenerated[k].name \o <<":", " ", "FAIL">>
        /\ FinalSummary(results).failed
              = Cardinality({k \in 1..Len(results) : results[k].output # "exit 0"})
        /\ \A k \in 1..Len(allGenerated) : \A text \in UnrecognizedSteps(k) :
              \E i \in 1..Len(results) : Occurs(text, FinalSummary(results).lines[i])

\* The part of C18 about the executions alone.
C18_FailuresReported ==
    phase \in {"Summarizing", "Done"} =>
        /\ \A k \in 1..Len(results) :
              results[k].output # "exit 0" =>
                 FinalSummary(results).lines[k]
                    = <<"KO", " ">> \o allGenerated[k].name \o <<":", " ", "FAIL">>
        /\ FinalSummary(results).failed
              = Cardinality({k \in 1..Len(results) : results[k].output # "exit 0"})

-----------------------------------------------------------------------------
(* Claims about thresholds and setup *)

\* The rules the steps produce for one metric, in step order.
RECURSIVE RulesFor(_, _)
RulesOfStep(result, metric) ==
    IF result.some /\ STEP_DEFINITIONS[result.v.definition].threshold.some
       /\ STEP_DEFINITIONS[result.v.definition].threshold.v.metric = metric
    THEN <<ThresholdOf(STEP_DEFINITIONS[result.v.definition], result.v.match).rule>>
    ELSE <<>>
RulesFor(steps, metric) ==
    IF steps = <<>> THEN <<>>
    ELSE RulesOfStep(matchStep(STEP_DEFINITIONS, Head(steps).text), metric)
         \o RulesFor(Tail(steps), metric)

\* The metrics a definition can name, and one that none names.
ThresholdMetrics ==
    {STEP_DEFINITIONS[d].threshold.v.metric :
        d \in {i \in 1..Len(STEP_DEFINITIONS) : STEP_DEFINITIONS[i].threshold.some}}
    \cup {"http_reqs"}

EntryIs(thresholds, metric, rules) ==
    IF rules = <<>>
    THEN ~thresholds.some \/ ~ObjHas(thresholds.v, metric)
    ELSE /\ thresholds.some
         /\ Cardinality({i \in 1..Len(thresholds.v) : thresholds.v[i].key = metric}) = 1
         /\ ObjGet(thresholds.v, metric) = rules

\* C19: in the options of a generated script the thresholds entry of a
\* metric is the sequence of the rules that the scenario's matched steps
\* give for it, one per step and in step order; a metric no step names has
\* no entry, and without any rule there is no thresholds block.
C19_ThresholdAccumulation ==
    pc = "generated" =>
        /\ \A m \in ThresholdMetrics :
              EntryIs(script.v.options.thresholds, m, RulesFor(genInput.v.scenario.steps, m))
        /\ script.v.options.thresholds.some
              => /\ ObjKeys(script.v.options.thresholds.v) \subseteq ThresholdMetrics
                 /\ \E m \in ThresholdMetrics : RulesFor(genInput.v.scenario.steps, m) # <<>>

\* Two steps have given their rules to one metric: the failure rate and the
\* check of all endpoints, or one step written twice.
C19_Witness ==
    /\ pc = "generated"
    /\ script.v.options.thresholds.some
    /\ ObjHas(script.v.options.thresholds.v, "http_req_failed")
    /\ Len(ObjGet(script.v.options.thresholds.v, "http_req_failed")) = 2

\* The setup code the matched steps declare, in step order.
RECURSIVE SetupsOf(_)
SetupOfStep(result) ==
    IF result.some /\ STEP_DEFINITIONS[result.v.definition].setup.some
    THEN <<STEP_DEFINITIONS[result.v.definition].setup.v>>
    ELSE <<>>
SetupsOf(steps) ==
    IF steps = <<>> THEN <<>>
    ELSE SetupOfStep(matchStep(STEP_DEFINITIONS, Head(steps).text)) \o SetupsOf(Tail(steps))

SetupIs(code, setups) ==
    /\ code.setup.some <=> setups # <<>>
    /\ setups # <<>> => code.setup.v = setups[Len(setups)]
    /\ code.default.param = (IF code.setup.some THEN "data" ELSE "")
    /\ code.teardown.param = code.default.param

\* C20: a generated script has a setup block exactly when a matched step of
\* the scenario declares setup code; the block is the code of the last such
\* step; the default and teardown functions take the parameter `data`
\* exactly when the block is there.
C20_SetupLastWins ==
    pc = "generated" => SetupIs(script.v, SetupsOf(genInput.v.scenario.steps))

\* Two steps declare different setup code and the second one's is used.
C20_Witness ==
    /\ pc = "generated"
    /\ Len(SetupsOf(genInput.v.scenario.steps)) = 2
    /\ SetupsOf(genInput.v.scenario.steps)[1] # SetupsOf(genInput.v.scenario.steps)[2]
    /\ script.v.setup = Some(SetupsOf(genInput.v.scenario.steps)[2])
    /\ script.v.default.param = "data"

-----------------------------------------------------------------------------
(* Claims about the groups of the workload function *)

\* The letters that make an escape sequence of a string literal other than
\* the letter itself.
EscapeLetters == {"b", "f", "n", "r", "t", "v", "0", "x", "u"}

\* The value of the single-quoted string literal whose text is lit, as the
\* engine reads it: a backslash takes the next character with it, the first
\* quote that no backslash precedes ends the literal. None: the literal is
\* not closed where the script closes it.
RECURSIVE LiteralValue(_)
LiteralValue(lit) ==
    IF lit = <<>> THEN Some(<<>>)
    ELSE IF Head(lit) = "'" THEN None
    ELSE IF Head(lit) = "\\"
         THEN IF Len(lit) = 1 THEN None
              ELSE IF ~LiteralValue(SubSeq(lit, 3, Len(lit))).some THEN None
              ELSE Some(<<IF lit[2] \in EscapeLetters THEN "CTRL" ELSE lit[2]>>
                        \o LiteralValue(SubSeq(lit, 3, Len(lit))).v)
    ELSE IF ~LiteralValue(Tail(lit)).some THEN None
    ELSE Some(<<Head(lit)>> \o LiteralValue(Tail(lit)).v)

GroupsOf(code) == code.default.groups
StepsOf(input) == input.scenario.steps

\* One group per step, in step order, with the code of that step.
GroupsFollowSteps ==
    /\ Len(GroupsOf(script.v)) = Len(StepsOf(genInput.v))
    /\ \A b \in 1..Len(GroupsOf(script.v)) :
          GroupsOf(script.v)[b].code
             = ProcessStep(EmptyCollected, StepsOf(genInput.v)[b]).codeBlocks[1].code

\* C21: the workload function of a generated script has one group per step
\* of the scenario, matched or not, in step order; the label the engine
\* reads for each group is the step's keyword, a blank and the step's text.
C21_OneGroupPerStep ==
    pc = "generated" =>
        /\ GroupsFollowSteps
        /\ \A b \in 1..Len(GroupsOf(script.v)) :
              LiteralValue(GroupsOf(script.v)[b].label)
                 = Some(StepsOf(genInput.v)[b].keyword \o <<" ">> \o StepsOf(genInput.v)[b].text)

\* The same, for the scenarios whose step texts hold no backslash.
C21_HoldsWithoutBackslash ==
    (pc = "generated"
     /\ \A b \in 1..Len(StepsOf(genInput.v)) :
           \A i \in 1..Len(StepsOf(genInput.v)[b].text) : StepsOf(genInput.v)[b].text[i] # "\\")
    => C21_OneGroupPerStep

-----------------------------------------------------------------------------
(* Claims about the imports *)

LineNames(line) == IF "names" \in DOMAIN line THEN line.names ELSE <<line.default>>

RECURSIVE AllNames(_)
AllNames(lines) == IF lines = <<>> THEN <<>> ELSE LineNames(Head(lines)) \o AllNames(Tail(lines))

NamesFrom(lines, from) ==
    IF \E i \in 1..Len(lines) : lines[i].from = from
    THEN (CHOOSE l \in {lines[i] : i \in 1..Len(lines)} : l.from = from).names
    ELSE <<>>

Range(seq) == {seq[i] : i \in 1..Len(seq)}

\* The definitions the steps match.
MatchedDefinitions(steps) ==
    {STEP_DEFINITIONS[matchStep(STEP_DEFINITIONS, steps[i].text).v.definition] :
        i \in {j \in 1..Len(steps) : matchStep(STEP_DEFINITIONS, steps[j].text).some}}

DeclaredImports(steps) == UNION {Range(d.imports) : d \in MatchedDefinitions(steps)}
MetricKinds(steps) ==
    UNION {{d.metrics[i].type : i \in 1..Len(d.metrics)} : d \in MatchedDefinitions(steps)}

Collaborators == {"../../lib/config.js", "../../lib/auth.js", "../../lib/endpoints.js",
                  "../../lib/helpers.js"}

CollaboratorNames(lines) == UNION {Range(NamesFrom(lines, from)) : from \in Collaborators}

\* No symbol twice, and the metrics line names the kinds of the metrics.
ImportsDeduplicated(lines, steps) ==
    /\ Cardinality(Range(AllNames(lines))) = Len(AllNames(lines))
    /\ Cardinality({i \in 1..Len(lines) : lines[i].from = "k6/metrics"})
          = (IF MetricKinds(steps) = {} THEN 0 ELSE 1)
    /\ Range(NamesFrom(lines, "k6/metrics")) = MetricKinds(steps)

\* C22 as the specification states it: the collaborator imports hold only
\* what the matched steps declare and getTimestamp, which the report block
\* calls.
C22_OnlyRequiredImports ==
    pc = "generated" =>
        /\ ImportsDeduplicated(script.v.importStatements, genInput.v.scenario.steps)
        /\ CollaboratorNames(script.v.importStatements)
              \subseteq DeclaredImports(genInput.v.scenario.steps) \cup {"getTimestamp"}

\* C22: in a generated script no symbol is imported twice, the metrics
\* import names exactly the kinds of the accumulated metrics and is absent
\* without metrics, and the collaborator imports are exactly the symbols the
\* matched steps declare, BASE_URL and getTimestamp.
C22_ImportsFiltered ==
    pc = "generated" =>
        /\ ImportsDeduplicated(script.v.importStatements, genInput.v.scenario.steps)
        /\ CollaboratorNames(script.v.importStatements)
              = DeclaredImports(genInput.v.scenario.steps) \cup {"BASE_URL", "getTimestamp"}

\* Two steps that declare the same import and bring metrics of one kind.
C22_Witness ==
    /\ pc = "generated"
    /\ Len(genInput.v.scenario.steps) = 2
    /\ genInput.v.scenario.steps[1].text # genInput.v.scenario.steps[2].text
    /\ \A i \in 1..2 : "getProducts" \in DeclaredImports(<<genInput.v.scenario.steps[i]>>)
    /\ MetricKinds(genInput.v.scenario.steps) = {"Trend"}
    /\ NamesFrom(script.v.importStatements, "../../lib/config.js") = <<"BASE_URL">>

-----------------------------------------------------------------------------
(* Claims about the slug *)

\* The maximal runs of symbols of a-z and 0-9 in a text, in order; cur is
\* the run being read.
RECURSIVE AlnumRuns(_, _)
AlnumRuns(str, cur) ==
    IF str = <<>> THEN (IF cur = <<>> THEN <<>> ELSE <<cur>>)
    ELSE IF Head(str) \in Alnum THEN AlnumRuns(Tail(str), Append(cur, Head(str)))
    ELSE (IF cur = <<>> THEN <<>> ELSE <<cur>>) \o AlnumRuns(Tail(str), <<>>)

RECURSIVE JoinWith(_, _)
JoinWith(runs, sep) ==
    IF runs = <<>> THEN <<>>
    ELSE IF Len(runs) = 1 THEN runs[1]
    ELSE runs[1] \o <<sep>> \o JoinWith(Tail(runs), sep)

SlugShape(slug) ==
    /\ \A i \in 1..Len(slug) : slug[i] \in Alnum \cup {"-"}
    /\ slug # <<>> => slug[1] # "-" /\ slug[Len(slug)] # "-"
    /\ \A i \in 1..(Len(slug) - 1) : ~(slug[i] = "-" /\ slug[i + 1] = "-")

\* C23: the slug of a scenario name is the lower-cased name with each
\* maximal run of characters outside a-z and 0-9 replaced by one '-' and
\* without a '-' at either end; it holds only a-z, 0-9 and '-', has no
\* '--', and is its own slug.
C23_Slug ==
    pc = "generated" =>
        /\ script.v.handleSummary.reportName
              = JoinWith(AlnumRuns(ToLowerCase(genInput.v.scenario.name), <<>>), "-")
        /\ SlugShape(script.v.handleSummary.reportName)
        /\ Slug(script.v.handleSummary.reportName, "-") = script.v.handleSummary.reportName

\* A name with a capital, runs of other characters inside and at both ends.
C23_Witness ==
    /\ pc = "generated"
    /\ genInput.v.scenario.name = <<"!", "A", " ", "-">>
    /\ script.v.handleSummary.reportName = <<"a">>

-----------------------------------------------------------------------------
(* Claims about the metrics behind the thresholds *)

\* The metrics the engine has without a declaration.
BuiltInMetrics == {"http_req_failed", "http_req_duration"}

DeclaredMetrics(code) ==
    {code.metricsDeclarations[i].k6name : i \in 1..Len(code.metricsDeclarations)}

ThresholdKeys(code) ==
    IF code.options.thresholds.some THEN ObjKeys(code.options.thresholds.v) ELSE {}

\* C24: every metric with a thresholds entry in a generated script is a
\* built-in metric of the engine or is declared in the same script.
C24_ThresholdMetricsDeclared ==
    pc = "generated" =>
        ThresholdKeys(script.v) \subseteq BuiltInMetrics \cup DeclaredMetrics(script.v)

\* The same, for the scenarios in which every step that sets a threshold on
\* a custom metric comes with a step that declares the metric.
C24_HoldsWithDeclaringStep ==
    (pc = "generated"
     /\ \A m \in ThresholdKeys(script.v) \ BuiltInMetrics :
           \E d \in MatchedDefinitions(genInput.v.scenario.steps) :
              \E i \in 1..Len(d.metrics) : d.metrics[i].k6name = m)
    => C24_ThresholdMetricsDeclared

-----------------------------------------------------------------------------
(* Claims about the context object *)

\* What the groups of a script read of `data`.
DataReads(code) ==
    UNION {TemplateReads(code.default.groups[b].code.template) :
              b \in 1..Len(code.default.groups)}

\* C25: a generated script whose workload reads `data` has a setup block
\* and a workload function with the parameter `data`; when the workload
\* reads data.skuPool the setup block returns skuPool.
C25_DataIsProvided ==
    pc = "generated" =>
        /\ DataReads(script.v) # {}
              => script.v.setup.some /\ script.v.default.param = "data"
        /\ "skuPool" \in DataReads(script.v)
              => script.v.setup.some /\ "skuPool" \in SetupReturns(script.v.setup.v)

\* The same, for the scenarios whose last step with setup code is the one
\* about the pool of SKUs.
C25_HoldsAfterSkuPool ==
    (pc = "generated"
     /\ SetupsOf(genInput.v.scenario.steps) # <<>>
     /\ SetupsOf(genInput.v.scenario.steps)[Len(SetupsOf(genInput.v.scenario.steps))]
           = "setupSkuPool")
    => C25_DataIsProvided

-----------------------------------------------------------------------------
(* Claims about the length of the stages *)

\* The seconds a stage with the duration `<n>s` runs.
StageSeconds(stage) == DigitsValue(SubSeq(stage.duration, 1, Len(stage.duration) - 1))

StagesOf(code) == code.options.scenarios.v.stages

TotalOfStages(stages) ==
    StageSeconds(stages[1]) + StageSeconds(stages[2]) + StageSeconds(stages[3])

\* No stage is longer than its share: none of the minimum durations acts.
Unclamped(stages, T) ==
    /\ StageSeconds(stages[1]) = (20 * T) \div 100
    /\ StageSeconds(stages[3]) = (15 * T) \div 100
    /\ StageSeconds(stages[2]) = T - StageSeconds(stages[1]) - StageSeconds(stages[3])

\* C26: the three stages of a ramping profile run together for at least the
\* requested T seconds, for exactly T seconds when T >= 34, and for more
\* than T seconds only when a minimum duration acts.
C26_StagesCoverDuration ==
    (pc = "generated" /\ script.v.options.scenarios.some) =>
        /\ TotalOfStages(StagesOf(script.v)) >= RequestedSeconds
        /\ RequestedSeconds >= 34 => TotalOfStages(StagesOf(script.v)) = RequestedSeconds
        /\ Unclamped(StagesOf(script.v), RequestedSeconds)
              => TotalOfStages(StagesOf(script.v)) = RequestedSeconds

\* 34 seconds run as 10, 19 and 5 seconds; 33 seconds run for 34.
C26_Witness ==
    /\ pc = "generated" /\ script.v.options.scenarios.some
    /\ RequestedSeconds = 34
    /\ StageSeconds(StagesOf(script.v)[1]) = 10
    /\ StageSeconds(StagesOf(script.v)[2]) = 19
    /\ StageSeconds(StagesOf(script.v)[3]) = 5

-----------------------------------------------------------------------------
(* Claims about the separation of the phases *)

\* The paths written so far, in the order of the writes.
WrittenPaths == SelectSeq(outputDir.ops, LAMBDA o : o # <<"mkdir">>)

\* C27: a run whose target holds a feature file that cannot be parsed never
\* leaves the parsing phase but by the fatal exit with code 1, writes no
\* script and starts no engine, whatever it parsed before; and an engine is
\* started only when generation is over and the script of every scenario of
\* every parsed feature has been written.
C27_PhasesAllOrNothing ==
    /\ (\E e \in FilesToParse : ~e.content.some) =>
          /\ phase \in {"Init", "Parsing", "Fatal"}
          /\ phase = "Fatal" => exitCode = Some(1)
          /\ outputDir.ops = <<>> /\ outputDir.files = <<>> /\ allGenerated = <<>>
          /\ engineLog = <<>> /\ inFlight = {}
    /\ engineLog # <<>> =>
          /\ phase \in {"Executing", "Summarizing", "Done"}
          /\ pending = <<>>
          /\ Len(features) = Cardinality(FilesToParse)
          /\ Len(allGenerated) = ScenarioCount(features)
          /\ WrittenPaths = [k \in 1..Len(allGenerated) |-> allGenerated[k].path]
          /\ \A k \in 1..Len(allGenerated) :
                ObjHas(outputDir.files, allGenerated[k].path)

\* The second file of a directory is rejected after the first one was
\* parsed: the run has ended with code 1.
C27_Witness ==
    /\ phase = "Fatal" /\ exitCode = Some(1)
    /\ trace = <<"Init", "Parsing", "Fatal">>
    /\ Len(features) = 1 /\ features[1].scenarios # <<>>
    /\ \E e \in FilesToParse : ~e.content.some
    /\ outputDir.ops = <<>> /\ engineLog = <<>>

-----------------------------------------------------------------------------
(* Claims about the completeness of the imports *)

\* The collaborator symbols a script uses: in its groups, in its setup
\* block and in its report block.
UsedSymbols(code) ==
    UNION {TemplateUses(code.default.groups[b].code.template) :
              b \in 1..Len(code.default.groups)}
    \cup (IF code.setup.some THEN SetupUses(code.setup.v) ELSE {})
    \cup {"getTimestamp"}

\* C28: every symbol of the collaborator libraries that a fragment, the
\* retained setup code or the report block of a generated script uses is
\* imported by the script.
C28_ImportsComplete ==
    pc = "generated" => UsedSymbols(script.v) \subseteq CollaboratorNames(script.v.importStatements)

\* The login action, whose definition declares no import and whose code
\* reads BASE_URL, beside a step with setup code.
C28_Witness ==
    /\ pc = "generated"
    /\ Len(script.v.default.groups) = 2
    /\ script.v.default.groups[1].code.template = "loginAction"
    /\ script.v.setup = Some("setupSkuPool")
    /\ UsedSymbols(script.v) = {"BASE_URL", "login", "getProducts", "getTimestamp"}

-----------------------------------------------------------------------------
(* Claims about the Background *)

IsBackground(child) == child.type = "background"

\* The feature with other Background children in the place of its own.
WithBackgrounds(feature, b) ==
    [feature EXCEPT !.children = b \o SelectSeq(@, LAMBDA c : ~IsBackground(c))]

\* What generation returns for a parsed feature, into an empty directory.
ScriptsOf(feature) ==
    generateK6Scripts(feature,
                      [exists |-> TRUE, writable |-> TRUE, files |-> <<>>, ops |-> <<>>],
                      "t1").generated

SameScripts(g1, g2) ==
    /\ Len(g1) = Len(g2)
    /\ \A k \in 1..Len(g1) :
          /\ g1[k].name = g2[k].name
          /\ g1[k].path = g2[k].path
          /\ Untimed(g1[k].code) = Untimed(g2[k].code)

\* C29: the steps of a Background are kept in the parsed feature, and the
\* scripts generated for a feature are, scenario by scenario, those of the
\* same feature with any other Background or none: same path, same text but
\* for the timestamp.
C29_BackgroundIgnored ==
    /\ pc # "parse" =>
          /\ parsed.v.background.some <=> \E i \in 1..Len(ast.v.children) : IsBackground(ast.v.children[i])
          /\ \A i \in 1..Len(ast.v.children) :
                (IsBackground(ast.v.children[i])
                 /\ \A j \in (i + 1)..Len(ast.v.children) : ~IsBackground(ast.v.children[j]))
                => /\ Len(parsed.v.background.v.steps) = Len(ast.v.children[i].steps)
                   /\ \A n \in 1..Len(ast.v.children[i].steps) :
                         parsed.v.background.v.steps[n].text = ast.v.children[i].steps[n].text
    /\ pc \in {"written", "rewritten"} =>
          \A b \in Backgrounds :
             SameScripts(FirstRun, ScriptsOf(parseFeatureFile(WithBackgrounds(ast.v, b))))

\* A feature whose Background has steps with setup code, imports, metrics
\* and a threshold, generated: the script of its scenario has none of them.
C29_Witness ==
    /\ pc = "written"
    /\ parsed.v.background.some /\ Len(parsed.v.background.v.steps) = 3
    /\ Len(allGenerated) = 1
    /\ allGenerated[1].code.setup = None
    /\ allGenerated[1].code.options.thresholds = None
    /\ Len(allGenerated[1].code.default.groups) = 1

-----------------------------------------------------------------------------
(* Claims about the order of the registry *)

\* The registry in another order: definition order[i] at place i.
Reordered(order) == [i \in 1..Len(STEP_DEFINITIONS) |-> STEP_DEFINITIONS[order[i]]]

\* The orders tried: the reverse order and the rotations by one and by half.
Reorderings ==
    {[i \in 1..Len(STEP_DEFINITIONS) |-> Len(STEP_DEFINITIONS) + 1 - i],
     [i \in 1..Len(STEP_DEFINITIONS) |-> (i % Len(STEP_DEFINITIONS)) + 1],
     [i \in 1..Len(STEP_DEFINITIONS) |->
         ((i + (Len(STEP_DEFINITIONS) \div 2) - 1) % Len(STEP_DEFINITIONS)) + 1]}

\* A value of matchStep under an order, with the definition named by its
\* place in the registry as declared.
Relabel(order, result) ==
    IF result.some
    THEN Some([definition |-> order[result.v.definition], match |-> result.v.match])
    ELSE None

MatchUnder(order, text) == Relabel(order, matchStep(Reordered(order), text))

\* The definitions that are the first match of one of the texts.
FirstMatches(texts) ==
    {matchStep(STEP_DEFINITIONS, t).v.definition :
        t \in {u \in texts : matchStep(STEP_DEFINITIONS, u).some}}

\* C30: no text matches two patterns of the registry, so matchStep returns
\* the same definition and groups when the registry is put in another
\* order, and every definition is the first match of some text.
C30_NoShadowing ==
    /\ Cardinality(Matching(stepText)) <= 1
    /\ pc \in {"call 1", "call 2"} =>
          \A order \in Reorderings : MatchUnder(order, stepText) = matchResult
    /\ stepText \in CanonicalTexts =>
          FirstMatches(CanonicalTexts) = 1..Len(STEP_DEFINITIONS)

\* The last definition of the registry is returned, the same under the
\* reverse order, in which it is tried first.
C30_Witness ==
    /\ pc = "call 1"
    /\ matchResult.some
    /\ matchResult.v.definition = Len(STEP_DEFINITIONS)
    /\ \A order \in Reorderings : MatchUnder(order, stepText) = matchResult

=============================================================================
